---- MODULE Spec2Model ----
(***************************************************************************)
(* Population-density resolver and casualty estimator of SEM-ForLoops      *)
(* (src/unnamed/part_000, the file src/services/populationDensity.ts).     *)
(*                                                                         *)
(* Numbers.  The program computes in IEEE doubles; the model computes in   *)
(* integers with a fixed unit per quantity:                                *)
(*   coordinates            1e-5 degree                                    *)
(*   populations            persons                                        *)
(*   areas (result fields)  0.01 km^2                                      *)
(*   densities              0.1 person per km^2                            *)
(*   blend weights          1/1000                                         *)
(*   impact area            0.01 km^2, as a wide natural                   *)
(*   casualties and caps    0.001 person, as a signed wide number          *)
(* Wide numbers are little-endian sequences of base-10^4 limbs, because    *)
(* the casualty figures exceed 2^31.  An optional value (a field that may *)
(* be undefined or null) is a sequence of length at most 1: None is        *)
(* undefined, Some(v) is the value v.                                      *)
(***************************************************************************)
EXTENDS Integers, Sequences, FiniteSets, TLC

None == <<>>
Some(v) == <<v>>

Abs(x) == IF x < 0 THEN -x ELSE x
Min2(a, b) == IF a <= b THEN a ELSE b
Max2(a, b) == IF a >= b THEN a ELSE b

\* JavaScript truthiness of an optional number / an optional string.
TruthyNum(o) == o # None /\ o[1] # 0
TruthyStr(o) == o # None /\ o[1] # ""

\* a ?? b, for an optional a
Nullish(a, b) == IF a = None THEN b ELSE a

\* The double Infinity, where a cell population (and the densities computed
\* from it) can carry it: the greatest integer stands for it, so that
\* comparisons order it above every number and arithmetic on it must be
\* spelled out.
Infinity == 2147483647

\* Number.isFinite, for these numbers
IsFinite(x) == x # Infinity

(***************************************************************************)
(* Wide arithmetic (limbs base 10^4, least significant first, no leading   *)
(* zero limb; the empty sequence is 0).                                    *)
(***************************************************************************)
RECURSIVE WNorm(_)
WNorm(w) == IF w = <<>> THEN <<>>
            ELSE IF w[Len(w)] = 0 THEN WNorm(SubSeq(w, 1, Len(w) - 1))
            ELSE w

RECURSIVE WFromNat(_)
WFromNat(n) == IF n = 0 THEN <<>> ELSE <<n % 10000>> \o WFromNat(n \div 10000)

\* w * k for a natural k <= 200000 (limb * k + carry stays below 2^31)
RECURSIVE WMulCarry(_, _, _)
WMulCarry(w, k, carry) ==
    IF w = <<>> THEN WFromNat(carry)
    ELSE LET t == w[1] * k + carry
         IN  <<t % 10000>> \o WMulCarry(Tail(w), k, t \div 10000)

WMulNat(w, k) == WNorm(WMulCarry(w, k, 0))

\* floor(w / 10^4): drop the lowest limb
WShift(w) == IF w = <<>> THEN <<>> ELSE Tail(w)

\* -1, 0, 1 as w1 <, =, > w2
RECURSIVE WCmpFrom(_, _, _)
WCmpFrom(w1, w2, i) ==
    IF i = 0 THEN 0
    ELSE IF w1[i] < w2[i] THEN -1
    ELSE IF w1[i] > w2[i] THEN 1
    ELSE WCmpFrom(w1, w2, i - 1)

WCmp(w1, w2) ==
    IF Len(w1) < Len(w2) THEN -1
    ELSE IF Len(w1) > Len(w2) THEN 1
    ELSE WCmpFrom(w1, w2, Len(w1))

\* Signed wide numbers, with +Infinity (Number.POSITIVE_INFINITY).
SW(neg, mag) == [inf |-> FALSE, neg |-> neg /\ mag # <<>>, mag |-> mag]
SWInfinity == [inf |-> TRUE, neg |-> FALSE, mag |-> <<>>]
SWZero == SW(FALSE, <<>>)

\* a <= b
SWLeq(a, b) ==
    IF b.inf THEN TRUE
    ELSE IF a.inf THEN FALSE
    ELSE IF a.neg /\ ~b.neg THEN TRUE
    ELSE IF ~a.neg /\ b.neg THEN FALSE
    ELSE IF a.neg THEN WCmp(a.mag, b.mag) >= 0
    ELSE WCmp(a.mag, b.mag) <= 0

SWMin(a, b) == IF SWLeq(a, b) THEN a ELSE b
SWMax(a, b) == IF SWLeq(a, b) THEN b ELSE a

\* an integer n (|n| < 2^31) times a natural k <= 200000
SWFromIntTimes(n, k) == SW(n < 0, WMulNat(WFromNat(Abs(n)), k))

RECURSIVE WAddCarry(_, _, _)
WAddCarry(w1, w2, carry) ==
    IF w1 = <<>> /\ w2 = <<>> THEN WFromNat(carry)
    ELSE LET a == IF w1 = <<>> THEN 0 ELSE w1[1]
             b == IF w2 = <<>> THEN 0 ELSE w2[1]
             t == a + b + carry
         IN  <<t % 10000>>
             \o WAddCarry(IF w1 = <<>> THEN <<>> ELSE Tail(w1),
                          IF w2 = <<>> THEN <<>> ELSE Tail(w2), t \div 10000)

WAdd(w1, w2) == WNorm(WAddCarry(w1, w2, 0))

RECURSIVE WMul(_, _)
WMul(w1, w2) ==
    IF w2 = <<>> \/ w1 = <<>> THEN <<>>
    ELSE WAdd(WMulNat(w1, w2[1]), WNorm(<<0>> \o WMul(w1, Tail(w2))))

(***************************************************************************)
(* Program constants (src/unnamed/part_000, lines 38-47).                  *)
(***************************************************************************)
WORLDPOP_CELL_AREA_KM2 == 1              \* 0.01 km^2, in units of 0.01 km^2
WORLDPOP_MAX_POLLS == 8
EARTH_RADIUS_KM == 6371
WORLDPOP_SAMPLING_RADIUS_CAP_KM == 60
LOCAL_INFLUENCE_SCALE_KM == 8
GLOBAL_DENSITY_CEILING_PER_KM2 == 5000
GLOBAL_POPULATION_CAP == WMulNat(WFromNat(8000000), 1000)   \* 8_000_000_000
MIN_SAMPLE_RADIUS_KM == 2
MAX_SAMPLE_BEARINGS == 6

(***************************************************************************)
(* Cache keys: Number.prototype.toFixed rounds the magnitude to the        *)
(* nearest multiple of the unit and keeps the sign of a negative number    *)
(* (so -0.0004 gives "-0.000"); the key is the pair of both roundings.     *)
(***************************************************************************)
ToFixed(x, unit) == <<x < 0, (Abs(x) + unit \div 2) \div unit>>

\* `${lat.toFixed(3)},${lon.toFixed(3)}`
locationKey(lat, lon) == <<ToFixed(lat, 100), ToFixed(lon, 100)>>

\* `${lat.toFixed(4)},${lon.toFixed(4)}`
cellKey(lat, lon) == <<ToFixed(lat, 10), ToFixed(lon, 10)>>

ToUpperCase(s) ==
    CASE s = "ke" -> "KE"
      [] s = "mc" -> "MC"
      [] OTHER -> s

(***************************************************************************)
(* Outcome of a call that may throw.                                       *)
(***************************************************************************)
Return(v) == [threw |-> FALSE, value |-> Some(v), error |-> ""]
Throw(e) == [threw |-> TRUE, value |-> None, error |-> e]

(***************************************************************************)
(* Remote data clients.  A response is what the service answered.          *)
(***************************************************************************)
\* fetchJson followed by the countryCode check
resolveCountry(resp) ==
    IF ~resp.ok THEN Throw("Request failed")
    ELSE IF ~TruthyStr(resp.countryCode)
         THEN Throw("Unable to determine country for this location")
    ELSE Return(resp.countryCode[1])

\* population / area in 0.1 person per km^2 (area in km^2)
Density(population, area) == (population * 10) \div area

loadCountryFacts(iso2, resp) ==
    IF ~resp.ok THEN Throw("Request failed")
    ELSE IF resp.country = None THEN Throw("No country data returned")
    ELSE IF ~TruthyNum(resp.country[1].population)
            \/ ~TruthyNum(resp.country[1].area)
            \/ resp.country[1].area[1] <= 0
         THEN Throw("Population or area unavailable")
    ELSE LET country == resp.country[1]
             population == country.population[1]
             area == country.area[1]
             density == Density(population, area)
         IN  Return([countryCode |-> ToUpperCase(iso2),
                     countryName |-> Nullish(country.name, Some(ToUpperCase(iso2)))[1],
                     population |-> population,
                     areaKm2 |-> area * 100,
                     densityPerSqKm |-> density,
                     source |-> "BigDataCloud reverse geocode + RestCountries",
                     notes |-> None,
                     localCellPopulation |-> None,
                     localCellAreaKm2 |-> None,
                     localCellDensityPerSqKm |-> None,
                     countryMeanDensityPerSqKm |-> Some(density),
                     countryPopulation |-> Some(population),
                     countryAreaKm2 |-> Some(area * 100)])

(***************************************************************************)
(* fetchWorldPopCellPopulation against a scripted task: the submit         *)
(* response and the responses the successive polls would get.              *)
(***************************************************************************)
\* a step of the client: it has ended with an outcome, or it goes on
Ended(out) == [done |-> TRUE, out |-> out]
GoesOn == [done |-> FALSE, out |-> None]

\* lines 177-184 without the test of sampleResponse.ok
submitStepAnyStatus(submitOk, taskid) ==
    IF ~TruthyStr(taskid)
    THEN Ended(Throw("WorldPop response missing task id"))
    ELSE GoesOn

\* lines 177-184 without the task id test
submitStepAnyId(submitOk, taskid) ==
    IF ~submitOk THEN Ended(Throw("WorldPop sample request failed")) ELSE GoesOn

\* lines 177-184: what the submit response does
submitStep(submitOk, taskid) ==
    IF ~submitOk THEN Ended(Throw("WorldPop sample request failed"))
    ELSE IF ~TruthyStr(taskid) THEN Ended(Throw("WorldPop response missing task id"))
    ELSE GoesOn

\* lines 194-216 with the error flag read only after the loop: a task that
\* finished with an error is polled again
pollStepPollsOn(body) ==
    IF ~body.ok THEN Ended(Throw("WorldPop task polling failed"))
    ELSE IF body.status = "finished" /\ ~body.error
    THEN IF body.total_population = None
         THEN Ended(Throw("WorldPop task returned invalid population data"))
         ELSE Ended(Return(body.total_population[1]))
    ELSE GoesOn

\* lines 194-216 with a failed poll request retried at the next attempt
pollStepRetriesFailed(body) ==
    IF ~body.ok THEN GoesOn
    ELSE IF body.status = "finished"
    THEN IF body.error
         THEN Ended(Throw(IF TruthyStr(body.error_message)
                          THEN body.error_message[1]
                          ELSE "WorldPop task returned an error"))
         ELSE IF body.total_population = None
         THEN Ended(Throw("WorldPop task returned invalid population data"))
         ELSE Ended(Return(body.total_population[1]))
    ELSE GoesOn

\* lines 194-216: what one poll response does
pollStep(body) ==
    IF ~body.ok THEN Ended(Throw("WorldPop task polling failed"))
    ELSE IF body.status = "finished"
    THEN IF body.error
         THEN Ended(Throw(IF TruthyStr(body.error_message)
                          THEN body.error_message[1]
                          ELSE "WorldPop task returned an error"))
         ELSE IF body.total_population = None
         THEN Ended(Throw("WorldPop task returned invalid population data"))
         ELSE Ended(Return(body.total_population[1]))
    ELSE GoesOn

\* line 186 with <= for <
mayPollOnceMore(attempt) == attempt <= WORLDPOP_MAX_POLLS

\* line 186: the loop condition, after `attempt` polls
mayPoll(attempt) == attempt < WORLDPOP_MAX_POLLS

\* lines 186-219: the loop from `attempt` on; polls counts the requests sent
RECURSIVE PollLoop(_, _)
PollLoop(attempt, polls) ==
    IF ~mayPoll(attempt)
    THEN [out |-> Throw("WorldPop task polling timed out"), polls |-> attempt]
    ELSE LET s == pollStep(polls[attempt + 1])
         IN  IF s.done THEN [out |-> s.out, polls |-> attempt + 1]
             ELSE PollLoop(attempt + 1, polls)

fetchWorldPopCellPopulation(task) ==
    LET s == submitStep(task.submitOk, task.taskid)
    IN  IF s.done THEN [out |-> s.out, polls |-> 0]
        ELSE PollLoop(0, task.polls)

(***************************************************************************)
(* The three results fetchPopulationDensity can build.  iso2 is an         *)
(* optional string, countryFacts an optional loadCountryFacts record.      *)
(***************************************************************************)
\* population / WORLDPOP_CELL_AREA_KM2, in 0.1 person per km^2
\* line 315 without the division by the cell area: persons per cell
CellDensityPerCell(population) ==
    IF ~IsFinite(population) THEN Infinity ELSE population * 10

CellDensity(population) ==
    IF ~IsFinite(population) THEN Infinity
    ELSE (population * 10 * 100) \div WORLDPOP_CELL_AREA_KM2

UpperOr(iso2, default) == IF iso2 = None THEN default ELSE ToUpperCase(iso2[1])

griddedResult(iso2, countryFacts, cellPopulation) ==
    LET cellDensity == CellDensity(cellPopulation)
        hasFacts == countryFacts # None
        facts == countryFacts[1]
    IN  [countryCode |-> IF hasFacts THEN facts.countryCode ELSE UpperOr(iso2, "NA"),
         countryName |-> IF hasFacts THEN facts.countryName
                         ELSE UpperOr(iso2, "Unknown region"),
         population |-> IF hasFacts /\ facts.countryPopulation # None
                        THEN facts.countryPopulation[1] ELSE cellPopulation,
         areaKm2 |-> IF hasFacts /\ facts.countryAreaKm2 # None
                     THEN facts.countryAreaKm2[1] ELSE WORLDPOP_CELL_AREA_KM2,
         densityPerSqKm |-> cellDensity,
         source |-> "WorldPop 100m (2020)",
         notes |-> IF hasFacts
                   THEN <<"Country-wide mean density", facts.densityPerSqKm>>
                   ELSE None,
         localCellPopulation |-> Some(cellPopulation),
         localCellAreaKm2 |-> Some(WORLDPOP_CELL_AREA_KM2),
         localCellDensityPerSqKm |-> Some(cellDensity),
         countryMeanDensityPerSqKm |->
             IF hasFacts
             THEN Nullish(facts.countryMeanDensityPerSqKm, Some(facts.densityPerSqKm))
             ELSE None,
         countryPopulation |-> IF hasFacts THEN facts.countryPopulation ELSE None,
         countryAreaKm2 |-> IF hasFacts THEN facts.countryAreaKm2 ELSE None]

countryFallback(facts) ==
    [facts EXCEPT !.notes = <<"WorldPop lookup unavailable; using national average density.">>,
                  !.localCellPopulation = None,
                  !.localCellAreaKm2 = None,
                  !.localCellDensityPerSqKm = None]

\* lines 352-366 without the notes
noDataFallbackSilent(iso2) ==
    [countryCode |-> UpperOr(iso2, "NA"),
     countryName |-> UpperOr(iso2, "Unknown region"),
     population |-> 0,
     areaKm2 |-> 100,
     densityPerSqKm |-> 0,
     source |-> "Population data unavailable",
     notes |-> None,
     localCellPopulation |-> None,
     localCellAreaKm2 |-> None,
     localCellDensityPerSqKm |-> None,
     countryMeanDensityPerSqKm |-> Some(0),
     countryPopulation |-> None,
     countryAreaKm2 |-> None]

noDataFallback(iso2) ==
    [countryCode |-> UpperOr(iso2, "NA"),
     countryName |-> UpperOr(iso2, "Unknown region"),
     population |-> 0,
     areaKm2 |-> 100,
     densityPerSqKm |-> 0,
     source |-> "Population data unavailable",
     notes |-> <<"Neither WorldPop nor RestCountries returned data for this coordinate.">>,
     localCellPopulation |-> None,
     localCellAreaKm2 |-> None,
     localCellDensityPerSqKm |-> None,
     countryMeanDensityPerSqKm |-> Some(0),
     countryPopulation |-> None,
     countryAreaKm2 |-> None]

\* lines 313-369: the result for the outcome of the cell lookup
resolveResult(iso2, countryFacts, cell) ==
    IF ~cell.threw THEN griddedResult(iso2, countryFacts, cell.value[1])
    ELSE IF countryFacts # None THEN countryFallback(countryFacts[1])
    ELSE noDataFallback(iso2)

(***************************************************************************)
(* Density sampler: the reduction of the settled per-point tasks.  A task  *)
(* result is None (the point failed, the task returned null) or Some(d).   *)
(***************************************************************************)
RECURSIVE Densities(_)
Densities(results) ==
    IF results = <<>> THEN <<>>
    ELSE (IF Head(results) = None \/ ~IsFinite(Head(results)[1])
          THEN <<>> ELSE <<Head(results)[1]>>)
         \o Densities(Tail(results))

RECURSIVE SeqSum(_)
SeqSum(s) == IF s = <<>> THEN 0 ELSE Head(s) + SeqSum(Tail(s))

RECURSIVE SeqMax(_)
SeqMax(s) == IF Len(s) = 1 THEN s[1] ELSE Max2(Head(s), SeqMax(Tail(s)))

RECURSIVE SeqMin(_)
SeqMin(s) == IF Len(s) = 1 THEN s[1] ELSE Min2(Head(s), SeqMin(Tail(s)))

\* lines 271-287; None is the null result
sampleStats(results) ==
    LET densities == Densities(results)
    IN  IF Len(densities) = 0 THEN None
        ELSE Some([meanDensity |-> SeqSum(densities) \div Len(densities),
                   maxDensity |-> SeqMax(densities),
                   minDensity |-> SeqMin(densities),
                   sampleCount |-> Len(densities)])

(***************************************************************************)
(* Geodesy.  Angles are in 1e-5 degree, distances in metres.               *)
(***************************************************************************)
RECURSIVE normaliseLongitude(_)
normaliseLongitude(lon) ==
    IF lon > 18000000 THEN normaliseLongitude(lon - 36000000)
    ELSE IF lon < -18000000 THEN normaliseLongitude(lon + 36000000)
    ELSE lon

\* cos and sin of the bearing 2*pi*i/MAX_SAMPLE_BEARINGS, in 1/10000
CosBearing(i) == <<10000, 5000, -5000, -10000, -5000, 5000>>[i + 1]
SinBearing(i) == <<0, 8660, 8660, 0, -8660, -8660>>[i + 1]

\* cos(lat) in 1/10000, by 1 - x^2/2 + x^4/24 with x in 1/10000 radian
CosLat(lat) ==
    LET x == ((lat \div 100) * 1745) \div 10000
        x2 == (x * x) \div 10000
    IN  10000 - x2 \div 2 + ((x2 * x2) \div 10000) \div 24

\* Degrees (1e-5) of arc per metre on the sphere: 180 / (pi * EARTH_RADIUS_KM)
\* degree per km = 0.0089932, that is 8993 / 10000 units per metre.
ArcUnits(metres) == (metres * (57295780 \div EARTH_RADIUS_KM)) \div 10000

\* destinationPoint for the bearing of index i, to first order in
\* distance / EARTH_RADIUS_KM (distances are at most 60 km)
destinationPoint(lat, lon, distanceM, i) ==
    LET north == (distanceM * CosBearing(i)) \div 10000
        east == (distanceM * SinBearing(i)) \div 10000
    IN  [lat |-> lat + ArcUnits(north),
         lon |-> normaliseLongitude(lon + (ArcUnits(east) * 10000) \div CosLat(lat))]

\* lines 232-256 with radiusKm >= 10 at line 249
generateSamplePointsFromTen(lat, lon, radiusM) ==
    LET effectiveRadius == Min2(Max2(radiusM, MIN_SAMPLE_RADIUS_KM * 1000),
                                WORLDPOP_SAMPLING_RADIUS_CAP_KM * 1000)
        firstRingRadius == Max2(MIN_SAMPLE_RADIUS_KM * 1000, (effectiveRadius * 6) \div 10)
        secondRingRadius == effectiveRadius
        ring(d) == [i \in 1..MAX_SAMPLE_BEARINGS |-> destinationPoint(lat, lon, d, i - 1)]
    IN  <<[lat |-> lat, lon |-> lon]>>
        \o ring(firstRingRadius)
        \o (IF radiusM >= 10 * 1000 THEN ring(secondRingRadius) ELSE <<>>)

\* lines 232-256, radius in metres
generateSamplePoints(lat, lon, radiusM) ==
    LET effectiveRadius == Min2(Max2(radiusM, MIN_SAMPLE_RADIUS_KM * 1000),
                                WORLDPOP_SAMPLING_RADIUS_CAP_KM * 1000)
        firstRingRadius == Max2(MIN_SAMPLE_RADIUS_KM * 1000, (effectiveRadius * 6) \div 10)
        secondRingRadius == effectiveRadius
        ring(d) == [i \in 1..MAX_SAMPLE_BEARINGS |-> destinationPoint(lat, lon, d, i - 1)]
    IN  <<[lat |-> lat, lon |-> lon]>>
        \o ring(firstRingRadius)
        \o (IF radiusM > 10 * 1000 THEN ring(secondRingRadius) ELSE <<>>)

(***************************************************************************)
(* Casualty estimator (lines 381-419).  A radius is a double: a finite     *)
(* number of metres m, or NaN, Infinity or -Infinity (m is then unused).   *)
(***************************************************************************)
Metres(m) == [kind |-> "finite", m |-> m]
NonFinite(kind) == [kind |-> kind, m |-> 0]

\* line 377 without the Number.isFinite test: NaN and Infinity are not <= 0
invalidRadiusSignOnly(blastRadiusM) ==
    blastRadiusM.kind \in {"finite", "-Infinity"} /\ blastRadiusM.m <= 0

\* !Number.isFinite(blastRadiusM) || blastRadiusM <= 0
invalidRadius(blastRadiusM) ==
    blastRadiusM.kind # "finite" \/ blastRadiusM.m <= 0

\* exp(-f) in 1/10000 for 0 <= f < 1 given in 1/10000 (Taylor, 7 terms)
ExpFrac(f) ==
    LET t2 == (f * f) \div 20000
        t3 == (t2 * f) \div 30000
        t4 == (t3 * f) \div 40000
        t5 == (t4 * f) \div 50000
        t6 == (t5 * f) \div 60000
    IN  10000 - f + t2 - t3 + t4 - t5 + t6

\* exp(-n) in 1/10000 for a natural n
RECURSIVE ExpWhole(_)
ExpWhole(n) == IF n = 0 THEN 10000
               ELSE IF n > 9 THEN 0
               ELSE (ExpWhole(n - 1) * 3679) \div 10000

\* line 397 with 1 - Math.exp(...), a weight that grows with the radius
localWeightRising(blastRadiusM) ==
    LET x == (Max2(0, blastRadiusM) * 10) \div LOCAL_INFLUENCE_SCALE_KM
    IN  1000 - (ExpWhole(x \div 10000) * ExpFrac(x % 10000)) \div 100000

\* Math.exp(-Math.max(0, blastRadiusKm) / LOCAL_INFLUENCE_SCALE_KM) in 1/1000
localWeight(blastRadiusM) ==
    LET x == (Max2(0, blastRadiusM) * 10) \div LOCAL_INFLUENCE_SCALE_KM
    IN  (ExpWhole(x \div 10000) * ExpFrac(x % 10000)) \div 100000

\* Math.PI * blastRadiusKm * blastRadiusKm in 0.01 km^2 (wide)
impactArea(blastRadiusM) ==
    WShift(WShift(WMulNat(WMul(WFromNat(blastRadiusM), WFromNat(blastRadiusM)), 31416)))

RECURSIVE Positive(_)
Positive(s) == IF s = <<>> THEN <<>>
               ELSE (IF IsFinite(Head(s)) /\ Head(s) > 0 THEN <<Head(s)>> ELSE <<>>)
                    \o Positive(Tail(s))

\* line 394 with || for ??: a density of 0 gives way to the next one
localDensityOfTruthy(density, stats) ==
    IF stats # None /\ stats[1].meanDensity # 0 THEN stats[1].meanDensity
    ELSE IF density.localCellDensityPerSqKm # None
            /\ density.localCellDensityPerSqKm[1] # 0
    THEN density.localCellDensityPerSqKm[1]
    ELSE density.densityPerSqKm

\* line 394
localDensityOf(density, stats) ==
    IF stats # None THEN stats[1].meanDensity
    ELSE Nullish(density.localCellDensityPerSqKm, Some(density.densityPerSqKm))[1]

\* line 395
countryDensityOf(density) ==
    Nullish(density.countryMeanDensityPerSqKm, Some(density.densityPerSqKm))[1]

\* line 398; the weights of the radii drawn here are strictly between 0 and
\* 1 as doubles, so an infinite density makes the sum infinite
blendedDensityOf(localDensity, countryDensity, weight) ==
    IF ~IsFinite(localDensity) \/ ~IsFinite(countryDensity) THEN Infinity
    ELSE (localDensity * weight + countryDensity * (1000 - weight)) \div 1000

\* lines 400-403 without the Math.max(1, ...) of line 403
densityCeilingOfUnfloored(localDensity, countryDensity, stats) ==
    LET candidates ==
            <<GLOBAL_DENSITY_CEILING_PER_KM2 * 10>>
            \o (IF stats # None /\ stats[1].maxDensity # 0
                THEN <<(stats[1].maxDensity * 3) \div 2>> ELSE <<>>)
            \o <<IF IsFinite(countryDensity) THEN countryDensity * 5 ELSE Infinity,
                 IF IsFinite(localDensity) THEN localDensity * 5 ELSE Infinity>>
    IN  SeqMin(Positive(candidates))

\* lines 400-403 without countryDensity * 5 among the candidates
densityCeilingOfNoNational(localDensity, countryDensity, stats) ==
    LET candidates ==
            <<GLOBAL_DENSITY_CEILING_PER_KM2 * 10>>
            \o (IF stats # None /\ stats[1].maxDensity # 0
                THEN <<(stats[1].maxDensity * 3) \div 2>> ELSE <<>>)
            \o <<IF IsFinite(localDensity) THEN localDensity * 5 ELSE Infinity>>
    IN  Max2(1 * 10, SeqMin(Positive(candidates)))

\* lines 400-403
densityCeilingOf(localDensity, countryDensity, stats) ==
    LET candidates ==
            <<GLOBAL_DENSITY_CEILING_PER_KM2 * 10>>
            \o (IF stats # None /\ stats[1].maxDensity # 0
                THEN <<(stats[1].maxDensity * 3) \div 2>> ELSE <<>>)
            \o <<IF IsFinite(countryDensity) THEN countryDensity * 5 ELSE Infinity,
                 IF IsFinite(localDensity) THEN localDensity * 5 ELSE Infinity>>
    IN  Max2(1 * 10, SeqMin(Positive(candidates)))

\* line 404 without the Math.min against the ceiling
effectiveDensityOfUnclamped(blendedDensity, densityCeiling) ==
    Max2(blendedDensity, 0)

\* line 404
effectiveDensityOf(blendedDensity, densityCeiling) ==
    Min2(Max2(blendedDensity, 0), densityCeiling)

\* line 407, in 0.001 person
countryPopulationCapOf(density) ==
    IF TruthyNum(density.countryPopulation)
    THEN SWFromIntTimes(density.countryPopulation[1], 900)
    ELSE SWInfinity

\* lines 406-408 and 418, in 0.001 person
estimatedCasualtiesOf(effectiveDensity, area, countryPopulationCap) ==
    LET rawCasualties == IF IsFinite(effectiveDensity)
                         THEN SW(FALSE, WMulNat(area, effectiveDensity))
                         ELSE SWInfinity
        estimated == SWMin(SWMin(rawCasualties, countryPopulationCap),
                           SW(FALSE, WMulNat(GLOBAL_POPULATION_CAP, 1000)))
    IN  SWMax(SWZero, estimated)

\* lines 382-419: the CasualtyEstimate for a resolved density and the
\* sampler's result (None when the sampler did not run or found nothing)
casualtyEstimate(density, stats, blastRadiusM) ==
    LET localDensity == localDensityOf(density, stats)
        countryDensity == countryDensityOf(density)
        blendedDensity == blendedDensityOf(localDensity, countryDensity,
                                           localWeight(blastRadiusM))
        densityCeiling == densityCeilingOf(localDensity, countryDensity, stats)
        effectiveDensity == effectiveDensityOf(blendedDensity, densityCeiling)
    IN  [density |-> density,
         blastRadiusM |-> blastRadiusM,
         impactAreaKm2 |-> impactArea(blastRadiusM),
         effectiveDensityPerSqKm |-> effectiveDensity,
         sampledMeanDensityPerSqKm |->
             IF stats = None THEN None ELSE Some(stats[1].meanDensity),
         sampledMaxDensityPerSqKm |->
             IF stats = None THEN None ELSE Some(stats[1].maxDensity),
         samplePointCount |->
             IF stats = None THEN None ELSE Some(stats[1].sampleCount),
         estimatedCasualties |->
             estimatedCasualtiesOf(effectiveDensity, impactArea(blastRadiusM),
                                   countryPopulationCapOf(density))]

(***************************************************************************)
(* What the remote services may answer.  A menu fixes the inputs and the   *)
(* answers a specification draws from.                                     *)
(***************************************************************************)
GeoFails == [ok |-> FALSE, countryCode |-> None]
GeoNoCode == [ok |-> TRUE, countryCode |-> None]
GeoCode(code) == [ok |-> TRUE, countryCode |-> Some(code)]

FactsFail == [ok |-> FALSE, country |-> None]
FactsEmpty == [ok |-> TRUE, country |-> None]
Facts(name, population, area) ==
    [ok |-> TRUE,
     country |-> Some([name |-> name, population |-> population, area |-> area])]

Pending == [ok |-> TRUE, status |-> "started", error |-> FALSE,
            error_message |-> None, total_population |-> None]
PollFails == [Pending EXCEPT !.ok = FALSE]
Finished(population) ==
    [Pending EXCEPT !.status = "finished", !.total_population = population]
FinishedError(message) ==
    [Pending EXCEPT !.status = "finished", !.error = TRUE, !.error_message = message]

\* a task whose poll number `attempt` answers `body`, the earlier ones "started"
TaskAnswering(attempt, body) ==
    [submitOk |-> TRUE, taskid |-> Some("t"),
     polls |-> [i \in 1..WORLDPOP_MAX_POLLS |-> IF i = attempt THEN body ELSE Pending]]
SubmitFails == [TaskAnswering(1, Pending) EXCEPT !.submitOk = FALSE]
NoTaskId == [TaskAnswering(1, Pending) EXCEPT !.taskid = None]
NeverFinishes == TaskAnswering(1, Pending)

(***************************************************************************)
(* try/catch boundaries of fetchPopulationDensity and of the sampler: what *)
(* each try block hands to the code after it.                              *)
(***************************************************************************)
\* lines 297-302 without the catch: the geocoder's error leaves the block
tryResolveCountryUncaught(resp) ==
    LET r == resolveCountry(resp)
    IN  IF r.threw THEN Throw(r.error) ELSE Return(r.value)

\* lines 297-302: iso2 after the block
tryResolveCountry(resp) ==
    LET r == resolveCountry(resp)
    IN  IF r.threw THEN Return(None) ELSE Return(r.value)

\* lines 304-311 without the catch: the country service's error leaves the block
tryLoadCountryFactsUncaught(iso2, resp) ==
    LET r == loadCountryFacts(iso2, resp)
    IN  IF r.threw THEN Throw(r.error) ELSE Return(r.value)

\* lines 304-311: countryFacts after the block
tryLoadCountryFacts(iso2, resp) ==
    LET r == loadCountryFacts(iso2, resp)
    IN  IF r.threw THEN Return(None) ELSE Return(r.value)

\* lines 313-338: the cell lookup's outcome, its failure caught
tryCellLookup(cell) == Return(cell)

\* lines 261-269: one sampler task, the density or null
sampleTask(cell) ==
    IF cell.threw THEN None ELSE Some(CellDensity(cell.value[1]))

(***************************************************************************)
(* One run of fetchWorldPopCellPopulation as the steps between its awaits. *)
(* pc is "idle", "submitted" (the submit request is out), "polling" (poll  *)
(* request number `polls` is out) or "settled" (the promise has settled    *)
(* with `out`); submit and responses are the answers received so far.      *)
(***************************************************************************)
IdleTask ==
    [pc |-> "idle", polls |-> 0, submit |-> None, responses |-> <<>>, out |-> None]

settle(task, out) == [task EXCEPT !.pc = "settled", !.out = Some(out)]

\* lines 186-189 and 219: the loop head after the responses so far
nextPoll(task) ==
    IF mayPoll(Len(task.responses))
    THEN [task EXCEPT !.pc = "polling", !.polls = @ + 1]
    ELSE settle(task, Throw("WorldPop task polling timed out"))

\* lines 177-186 for the submit response resp
afterSubmit(task, resp) ==
    LET t == [task EXCEPT !.submit = Some(resp)]
        s == submitStep(resp.submitOk, resp.taskid)
    IN  IF s.done THEN settle(t, s.out) ELSE nextPoll(t)

\* lines 194-217 for the poll response body
afterPoll(task, body) ==
    LET t == [task EXCEPT !.responses = Append(@, body)]
        s == pollStep(body)
    IN  IF s.done THEN settle(t, s.out) ELSE nextPoll(t)

(***************************************************************************)
(* One fetchWorldPopCellPopulation call with every await as a step: the    *)
(* submit request, then per attempt the delay's timer and the poll         *)
(* request.  `outstanding` counts the call's requests sent and not yet     *)
(* answered.                                                               *)
(***************************************************************************)
IdleFetch ==
    [pc |-> "idle", polls |-> 0, submit |-> None, responses |-> <<>>, out |-> None,
     outstanding |-> 0]

\* line 172: the submit request goes out
startFetch(task) == [task EXCEPT !.pc = "submitted", !.outstanding = @ + 1]

\* lines 186-187 and 219: the loop head; the call waits for the delay's timer
loopHead(task) ==
    IF mayPoll(Len(task.responses))
    THEN [task EXCEPT !.pc = "delay"]
    ELSE settle(task, Throw("WorldPop task polling timed out"))

\* lines 172-187 for the submit response resp
submitAnswered(task, resp) ==
    LET t == [task EXCEPT !.submit = Some(resp), !.outstanding = @ - 1]
        s == submitStep(resp.submitOk, resp.taskid)
    IN  IF s.done THEN settle(t, s.out) ELSE loopHead(t)

\* lines 187-189 with the poll's fetch not awaited: the next attempt's timer
\* also fires while a poll is outstanding
pollDueUnawaited(task) == task.pc \in {"delay", "polling"} /\ mayPoll(task.polls)

\* lines 187-189: a poll is sent when the delay of its attempt has elapsed,
\* and the delay starts only once the previous await has returned
pollDue(task) == task.pc = "delay"

\* line 189: the delay has elapsed, the poll request goes out
delayElapsed(task) ==
    [task EXCEPT !.pc = "polling", !.polls = @ + 1, !.outstanding = @ + 1]

\* lines 189-217 for the poll response body
pollAnswered(task, body) ==
    LET t == [task EXCEPT !.responses = Append(@, body), !.outstanding = @ - 1]
        s == pollStep(body)
    IN  IF s.done THEN settle(t, s.out) ELSE loopHead(t)

(***************************************************************************)
(* State.                                                                  *)
(***************************************************************************)
VARIABLES
    locationCache,        \* Map<string, PopulationDensityResult>
    cellPopulationCache,  \* Map<string, number>
    calls,                \* per caller: the call it is running
    completed,            \* per location key: results of completed resolutions
    started,              \* number of calls started so far
    remoteTask,           \* one run of fetchWorldPopCellPopulation, step by step
    batch,                \* the fetches of one sampler batch, each step by step
    probe,                \* a pure function applied on its own: arguments and values
    globe,                \* the Globe component: its state, promises and timers
    impactBus             \* the impact bus: parameters, listeners, their calls

vars == <<locationCache, cellPopulationCache, calls, completed, started, remoteTask,
          batch, probe, globe, impactBus>>

Callers == {"a", "b"}
MaxCalls == 3
BatchSize == 2

EmptyMap == <<>>
MapSet(f, k, v) == [x \in DOMAIN f \cup {k} |-> IF x = k THEN v ELSE f[x]]
MapGet(f, k, default) == IF k \in DOMAIN f THEN f[k] ELSE default

(***************************************************************************)
(* The impact bus (src/state/impactBus.tsx): a record of impact            *)
(* parameters, a Set of listeners, and what each listener was called with. *)
(***************************************************************************)
Listeners == {"f", "g"}

\* lines 14-21
initialImpact ==
    [diameterM |-> 100, velocityMS |-> 20000, densityKgM3 |-> 3000,
     energyMt |-> None, material |-> "rock", angleDeg |-> 45]

\* the spread the wrong way round: the old fields win
spreadStateLast(state, patch) ==
    [k \in DOMAIN state \cup DOMAIN patch |->
        IF k \in DOMAIN state THEN state[k] ELSE patch[k]]

\* line 30, { ...state, ...patch }: the patch's own keys win, the others stay
spread(state, patch) ==
    [k \in DOMAIN state \cup DOMAIN patch |->
        IF k \in DOMAIN patch THEN patch[k] ELSE state[k]]

\* fn(state) for a listener that records its argument
invoke(received, fn, state) == [received EXCEPT ![fn] = Append(@, state)]

\* lines 31: listeners.forEach((fn) => fn(state)), over the given listeners
RECURSIVE forEach(_, _, _)
forEach(received, fns, state) ==
    IF fns = {} THEN received
    ELSE LET fn == CHOOSE f \in fns : TRUE
         IN  forEach(invoke(received, fn, state), fns \ {fn}, state)

notifyListeners(bus, state) == forEach(bus.received, bus.listeners, state)

IdleBus ==
    [state |-> initialImpact, listeners |-> {}, handles |-> {},
     received |-> [fn \in Listeners |-> <<>>], sets |-> 0, subscribes |-> 0,
     got |-> None]

\* lines 25-27
getImpact(bus) == bus.state

\* lines 29-32
setImpact(bus, patch) ==
    LET state == spread(bus.state, patch)
        b == [bus EXCEPT !.state = state, !.sets = @ + 1]
    IN  [b EXCEPT !.received = notifyListeners(b, state)]

\* lines 34-38; the unsubscribe function it returns is kept in handles
subscribeImpact(bus, fn) ==
    [bus EXCEPT !.listeners = @ \cup {fn},
                !.received = invoke(@, fn, bus.state),
                !.handles = @ \cup {fn},
                !.subscribes = @ + 1]

\* line 38: () => listeners.delete(fn)
unsubscribe(bus, fn) == [bus EXCEPT !.listeners = @ \ {fn}]

(***************************************************************************)
(* The globe (src/components/Globe.tsx): the component's state, the        *)
(* estimateCasualties promises and the timers its click handler started.   *)
(***************************************************************************)
Summary(status, data, error) == [status |-> status, data |-> data, error |-> error]
Loading == Summary("loading", None, None)
Ready(data) == Summary("ready", Some(data), None)
Failed(error) == Summary("error", None, Some(error))

MapRemove(f, k) == [x \in DOMAIN f \ {k} |-> f[x]]

IdleGlobe ==
    [idRef |-> 0, clickedCoords |-> None, meteors |-> <<>>, explosions |-> <<>>,
     tsunamis |-> <<>>, impactSummaries |-> EmptyMap, latestImpactMeta |-> None,
     estimates |-> EmptyMap, meteorTimers |-> <<>>, tsunamiTimers |-> <<>>]

\* line 376, effectiveBlastRadiusM > 0: false for 0, a negative number and NaN
radiusAvailable(radius) ==
    (radius.kind = "finite" /\ radius.m > 0) \/ radius.kind = "Infinity"

\* lines 353-418, the click handler up to its return
click(g, at, radius) ==
    LET id == g.idRef + 1
    IN  [g EXCEPT !.idRef = id,
                  !.clickedCoords = Some(at),
                  !.meteors = Append(@, id),
                  !.latestImpactMeta =
                      Some([id |-> id, lat |-> at.lat, lon |-> at.lon,
                            blastRadiusM |-> radius]),
                  !.impactSummaries =
                      MapSet(@, id, IF radiusAvailable(radius) THEN Loading
                                    ELSE Failed("Impact radius unavailable")),
                  !.estimates =
                      IF radiusAvailable(radius) THEN MapSet(@, id, radius) ELSE @,
                  !.meteorTimers = Append(@, id)]

\* what the promise of estimateCasualties settles with: the call rejects an
\* invalid radius and returns an estimate otherwise
settlement(id, radius) ==
    IF invalidRadius(radius)
    THEN Failed("Blast radius must be a positive number of meters")
    ELSE Ready([click |-> id, blastRadiusM |-> radius.m])

\* the completion written under the latest click's id instead of its own
estimateSettledLatest(g, id) ==
    LET to == IF g.latestImpactMeta = None THEN id ELSE g.latestImpactMeta[1].id
    IN  [g EXCEPT !.impactSummaries = MapSet(@, to, settlement(id, g.estimates[id])),
                  !.estimates = MapRemove(@, id)]

\* lines 383-395: the .then or the .catch of click id
estimateSettled(g, id) ==
    [g EXCEPT !.impactSummaries = MapSet(@, id, settlement(id, g.estimates[id])),
              !.estimates = MapRemove(@, id)]

\* lines 409-418: the meteor's timer fires
meteorLanded(g) ==
    LET id == Head(g.meteorTimers)
    IN  [g EXCEPT !.meteors = SelectSeq(@, LAMBDA m : m # id),
                  !.explosions = Append(@, id),
                  !.meteorTimers = Tail(@),
                  !.tsunamiTimers = Append(@, id)]

\* lines 415-417: the inner timer fires
tsunamiStarted(g) ==
    [g EXCEPT !.tsunamis = Append(@, Head(g.tsunamiTimers)),
              !.tsunamiTimers = Tail(@)]

\* line 619: prev.filter((_, idx) => idx !== i)
tsunamiEnded(g, i) ==
    [g EXCEPT !.tsunamis = [j \in 1..(Len(@) - 1) |-> IF j < i THEN @[j] ELSE @[j + 1]]]

\* line 437: the summary the overlay shows, None for undefined
latestImpactSummary(g) ==
    IF g.latestImpactMeta = None THEN None
    ELSE IF g.latestImpactMeta[1].id \in DOMAIN g.impactSummaries
    THEN Some(g.impactSummaries[g.latestImpactMeta[1].id])
    ELSE None

\* lines 485-494
resetGlobe(g) ==
    [g EXCEPT !.clickedCoords = None, !.meteors = <<>>, !.explosions = <<>>,
              !.tsunamis = <<>>, !.impactSummaries = EmptyMap,
              !.latestImpactMeta = None]

NoProbe == [fn |-> "none"]

NoRequests == [geocode |-> 0, facts |-> 0, submit |-> 0, poll |-> 0]

IdleCall ==
    [pc |-> "idle", op |-> "", lat |-> 0, lon |-> 0, blastRadiusM |-> Metres(0),
     iso2 |-> None, countryFacts |-> None, density |-> None,
     points |-> <<>>, tasks |-> <<>>, sampleStats |-> None,
     result |-> None, error |-> "",
     requests |-> NoRequests,
     hit |-> FALSE, geo |-> "none", facts |-> "none", cell |-> "none",
     seen |-> {}]

Init ==
    /\ locationCache = EmptyMap
    /\ cellPopulationCache = EmptyMap
    /\ calls = [c \in Callers |-> IdleCall]
    /\ completed = EmptyMap
    /\ started = 0
    /\ remoteTask = IdleTask
    /\ batch = <<>>
    /\ globe = IdleGlobe
    /\ impactBus = IdleBus
    /\ probe = NoProbe

\* a step's effect: the caller's call and the two caches after it
Effect(call, loc, cell, done) ==
    [call |-> call, loc |-> loc, cell |-> cell, done |-> done]

Apply(c, e) ==
    /\ calls' = [calls EXCEPT ![c] = e.call]
    /\ locationCache' = e.loc
    /\ cellPopulationCache' = e.cell
    /\ completed' =
           IF e.done = None THEN completed
           ELSE LET k == locationKey(e.call.lat, e.call.lon)
                IN  MapSet(completed, k, MapGet(completed, k, {}) \cup {e.done[1]})
    /\ UNCHANGED <<remoteTask, batch, probe, globe, impactBus>>

\* an exception nobody caught rejects the call's promise
reject(call, error, loc, cell) ==
    Effect([call EXCEPT !.pc = "rejected", !.error = error], loc, cell, None)

\* lines 394-419
finishEstimate(call, density, stats, loc, cell, done) ==
    Effect([call EXCEPT !.pc = "returned",
                        !.density = Some(density),
                        !.sampleStats = stats,
                        !.result = Some(casualtyEstimate(density, stats,
                                                         call.blastRadiusM.m))],
           loc, cell, done)

\* lines 261-269: a per-point task that has ended; value is what the task
\* returned, population what getWorldPopCellPopulation returned to it
settledTask(out) ==
    [pending |-> FALSE, value |-> sampleTask(out), population |-> out.value]

\* lines 385-392 with the sampler calling fetchWorldPopCellPopulation
\* directly: no point is served from the cell cache
startSamplerUncached(call, density, loc, cell, done) ==
    LET points == generateSamplePoints(call.lat, call.lon, call.blastRadiusM.m)
        tasks == [i \in 1..Len(points) |->
                    [pending |-> TRUE, value |-> None, population |-> None]]
    IN  Effect([call EXCEPT !.pc = "sampling",
                            !.density = Some(density),
                            !.points = points,
                            !.tasks = tasks,
                            !.requests.submit = @ + Len(points)],
               loc, cell, done)

\* lines 385-392 up to the await: the tasks are created in order, each
\* checks the cell cache and, on a miss, sends its submit request
startSampler(call, density, loc, cell, done) ==
    LET points == generateSamplePoints(call.lat, call.lon, call.blastRadiusM.m)
        tasks == [i \in 1..Len(points) |->
                    LET k == cellKey(points[i].lat, points[i].lon)
                    IN  IF k \in DOMAIN cell
                        THEN settledTask(Return(cell[k]))
                        ELSE [pending |-> TRUE, value |-> None, population |-> None]]
        misses == Cardinality({i \in 1..Len(points) : tasks[i].pending})
    IN  IF misses = 0
        THEN finishEstimate([call EXCEPT !.points = points, !.tasks = tasks],
                            density, sampleStats([i \in 1..Len(tasks) |-> tasks[i].value]),
                            loc, cell, done)
        ELSE Effect([call EXCEPT !.pc = "sampling",
                                 !.density = Some(density),
                                 !.points = points,
                                 !.tasks = tasks,
                                 !.requests.submit = @ + misses],
                    loc, cell, done)

\* line 386 with blastRadiusKm >= 1
afterDensitySamplesAtOne(call, density, loc, cell) ==
    IF call.op = "fetchPopulationDensity"
    THEN Effect([call EXCEPT !.pc = "returned", !.result = Some(density)],
                loc, cell, Some(density))
    ELSE IF call.blastRadiusM.m >= 1 * 1000
    THEN startSampler(call, density, loc, cell, Some(density))
    ELSE finishEstimate(call, density, None, loc, cell, Some(density))

\* fetchPopulationDensity has returned `density` to its caller
afterDensity(call, density, loc, cell) ==
    IF call.op = "fetchPopulationDensity"
    THEN Effect([call EXCEPT !.pc = "returned", !.result = Some(density)],
                loc, cell, Some(density))
    ELSE IF call.blastRadiusM.m > 1 * 1000
    THEN startSampler(call, density, loc, cell, Some(density))
    ELSE finishEstimate(call, density, None, loc, cell, Some(density))

\* lines 313-369 with locationCache.set only on the gridded path
resolvedFallbackUncached(call, cellOutcome, loc, cell) ==
    LET result == resolveResult(call.iso2, call.countryFacts, cellOutcome)
    IN  afterDensity(call, result,
                     IF cellOutcome.threw THEN loc
                     ELSE MapSet(loc, locationKey(call.lat, call.lon), result), cell)

\* lines 313-338 with a failed cell lookup started again instead of falling
\* through to the fallbacks
resolvedRetrying(call, cellOutcome, loc, cell) ==
    IF cellOutcome.threw
    THEN Effect([call EXCEPT !.pc = "cell", !.requests.submit = @ + 1], loc, cell, None)
    ELSE LET result == resolveResult(call.iso2, call.countryFacts, cellOutcome)
         IN  afterDensity(call, result,
                          MapSet(loc, locationKey(call.lat, call.lon), result), cell)

\* lines 313-369 after the cell lookup has an outcome
resolved(call, cellOutcome, loc, cell) ==
    LET t == tryCellLookup(cellOutcome)
    IN  IF t.threw THEN reject(call, t.error, loc, cell)
        ELSE LET result == resolveResult(call.iso2, call.countryFacts, t.value[1])
             IN  afterDensity(call, result,
                              MapSet(loc, locationKey(call.lat, call.lon), result), cell)

\* line 314 without the cache check of lines 224-226
beginCellLookupUncached(call, loc, cell) ==
    Effect([call EXCEPT !.pc = "cell", !.requests.submit = @ + 1], loc, cell, None)

\* line 314: getWorldPopCellPopulation up to its await
beginCellLookup(call, loc, cell) ==
    LET k == cellKey(call.lat, call.lon)
    IN  IF k \in DOMAIN cell
        THEN resolved([call EXCEPT !.cell = "cached"], Return(cell[k]), loc, cell)
        ELSE Effect([call EXCEPT !.pc = "cell", !.requests.submit = @ + 1],
                    loc, cell, None)

\* lines 291-299: fetchPopulationDensity up to its first await
beginResolve(call, loc, cell) ==
    LET k == locationKey(call.lat, call.lon)
    IN  IF k \in DOMAIN loc
        THEN afterDensity([call EXCEPT !.hit = TRUE], loc[k], loc, cell)
        ELSE Effect([call EXCEPT !.pc = "geocode", !.requests.geocode = @ + 1],
                    loc, cell, None)

\* lines 377-382 in the other order: fetchPopulationDensity is called, and
\* sends its geocode request on a miss, before the radius is checked
startEstimateResolvesFirst(call, loc, cell) ==
    IF invalidRadius(call.blastRadiusM)
    THEN reject([call EXCEPT !.requests.geocode =
                                 IF locationKey(call.lat, call.lon) \in DOMAIN loc
                                 THEN @ ELSE @ + 1],
                "Blast radius must be a positive number of meters", loc, cell)
    ELSE beginResolve(call, loc, cell)

\* lines 377-382: estimateCasualties up to its first await
startEstimate(call, loc, cell) ==
    IF invalidRadius(call.blastRadiusM)
    THEN reject(call, "Blast radius must be a positive number of meters", loc, cell)
    ELSE beginResolve(call, loc, cell)

\* lines 227-229 with a failed fetch cached as population 0
cacheCellFailuresToo(cell, key, outcome) ==
    MapSet(cell, key, IF outcome.threw THEN 0 ELSE outcome.value[1])

\* lines 222-230 after the await: the fetch's outcome reaches the cache
cacheCell(cell, key, outcome) ==
    IF outcome.threw THEN cell ELSE MapSet(cell, key, outcome.value[1])

\* the cell cache after the sampler's pending tasks i..n have ended, task j
\* with outcome outcomes[j], in the order of their indices
RECURSIVE cacheSamples(_, _, _, _)
cacheSamples(call, outcomes, i, cell) ==
    IF i > Len(call.tasks) THEN cell
    ELSE IF ~call.tasks[i].pending THEN cacheSamples(call, outcomes, i + 1, cell)
    ELSE cacheSamples(call, outcomes, i + 1,
                      cacheCell(cell, cellKey(call.points[i].lat, call.points[i].lon),
                                outcomes[i].out))

\* the call after its pending tasks have settled
settleTasks(call, outcomes) ==
    LET n == Len(call.tasks)
        pending == {i \in 1..n : call.tasks[i].pending}
    IN  [call EXCEPT
           !.tasks = [i \in 1..n |->
                        IF i \in pending
                        THEN settledTask(outcomes[i].out)
                        ELSE call.tasks[i]],
           !.requests.poll = @ + SeqSum([i \in 1..n |->
                                           IF i \in pending THEN outcomes[i].polls ELSE 0])]

\* line 271 as Promise.race would do it: the first settled task ends the wait
joinReadyFirst(tasks) == \E i \in 1..Len(tasks) : ~tasks[i].pending

\* line 271: Promise.allSettled resolves when every task has settled
joinReady(tasks) == \A i \in 1..Len(tasks) : ~tasks[i].pending

\* lines 261-287, then 394-419: the fetch of sample point i ends with r; the
\* task settles and, when it was the last one, the sampler aggregates
sampleFetchEnds(call, i, r, loc, cell) ==
    LET cache == cacheCell(cell, cellKey(call.points[i].lat, call.points[i].lon), r.out)
        settled == [call EXCEPT !.tasks[i] = settledTask(r.out),
                                !.requests.poll = @ + r.polls]
    IN  IF joinReady(settled.tasks)
        THEN finishEstimate(settled, call.density[1],
                            sampleStats([j \in 1..Len(settled.tasks) |->
                                            settled.tasks[j].value]),
                            loc, cache, None)
        ELSE Effect(settled, loc, cache, None)

(***************************************************************************)
(* Actions.  M is the menu of inputs and remote answers.                   *)
(***************************************************************************)
\* a caller starts a call when it is not inside one; with M.again it may
\* call again after a call has ended, MaxCalls calls in all
CanStart(c, M) ==
    IF M.again
    THEN calls[c].pc \in {"idle", "returned", "rejected"} /\ started < MaxCalls
    ELSE calls[c].pc = "idle"

NewCall(op, coord, radius) ==
    [IdleCall EXCEPT !.op = op, !.lat = coord.lat, !.lon = coord.lon,
                     !.blastRadiusM = radius,
                     !.seen = MapGet(completed, locationKey(coord.lat, coord.lon), {})]

\* a caller calls fetchPopulationDensity(lat, lon)
FetchPopulationDensity(c, M) ==
    /\ CanStart(c, M)
    /\ \E coord \in M.coords :
           Apply(c, beginResolve(NewCall("fetchPopulationDensity", coord, Metres(0)),
                                 locationCache, cellPopulationCache))
    /\ started' = started + 1

\* a caller calls estimateCasualties(lat, lon, blastRadiusM)
EstimateCasualties(c, M) ==
    /\ CanStart(c, M)
    /\ \E coord \in M.coords, radius \in M.radii :
           Apply(c, startEstimate(NewCall("estimateCasualties", coord, radius),
                                  locationCache, cellPopulationCache))
    /\ started' = started + 1

\* the reverse geocoder answers (lines 299-311)
GeocodeResponse(c, M) ==
    /\ calls[c].pc = "geocode"
    /\ \E resp \in M.geo :
           LET t == tryResolveCountry(resp)
               iso2 == t.value[1]
               call == [calls[c] EXCEPT !.iso2 = iso2,
                                        !.geo = IF iso2 = None THEN "failed" ELSE "ok"]
           IN  Apply(c, IF t.threw
                        THEN reject(calls[c], t.error, locationCache, cellPopulationCache)
                        ELSE IF iso2 # None
                        THEN Effect([call EXCEPT !.pc = "facts",
                                                 !.requests.facts = @ + 1],
                                    locationCache, cellPopulationCache, None)
                        ELSE beginCellLookup(call, locationCache, cellPopulationCache))
    /\ UNCHANGED <<started, globe, impactBus>>

\* the country-facts service answers (lines 307-314)
FactsResponse(c, M) ==
    /\ calls[c].pc = "facts"
    /\ \E resp \in M.facts :
           LET t == tryLoadCountryFacts(calls[c].iso2[1], resp)
               facts == t.value[1]
               call == [calls[c] EXCEPT !.countryFacts = facts,
                                        !.facts = IF facts = None THEN "failed" ELSE "ok"]
           IN  Apply(c, IF t.threw
                        THEN reject(calls[c], t.error, locationCache, cellPopulationCache)
                        ELSE beginCellLookup(call, locationCache, cellPopulationCache))
    /\ UNCHANGED <<started, globe, impactBus>>

\* the resolver's cell fetch ends (lines 227-229, then 315-369)
CellResponse(c, M) ==
    /\ calls[c].pc = "cell"
    /\ \E task \in M.tasks :
           LET r == fetchWorldPopCellPopulation(task)
               call == [calls[c] EXCEPT !.requests.poll = @ + r.polls,
                                        !.cell = IF r.out.threw THEN "failed" ELSE "ok"]
           IN  Apply(c, resolved(call, r.out, locationCache,
                                 cacheCell(cellPopulationCache,
                                           cellKey(call.lat, call.lon), r.out)))
    /\ UNCHANGED <<started, globe, impactBus>>

\* the sampler's fetches end and Promise.allSettled resolves (lines 271-287,
\* then 394-419)
SamplerSettled(c, M) ==
    /\ calls[c].pc = "sampling"
    /\ \E answers \in M.samples :
           LET outcomes == [i \in DOMAIN answers |-> fetchWorldPopCellPopulation(answers[i])]
               call == settleTasks(calls[c], outcomes)
               stats == sampleStats([i \in 1..Len(call.tasks) |-> call.tasks[i].value])
           IN  Apply(c, finishEstimate(call, call.density[1], stats, locationCache,
                                       cacheSamples(calls[c], outcomes, 1, cellPopulationCache),
                                       None))
    /\ UNCHANGED <<started, globe, impactBus>>

\* the fetch of one sample point ends (lines 263-268; with the last one,
\* lines 271-287 and 394-419)
SampleFetchEnds(c, M) ==
    /\ calls[c].pc = "sampling"
    /\ \E i \in 1..Len(calls[c].tasks), answer \in M.tasks :
           /\ calls[c].tasks[i].pending
           /\ Apply(c, sampleFetchEnds(calls[c], i, fetchWorldPopCellPopulation(answer),
                                       locationCache, cellPopulationCache))
    /\ UNCHANGED <<started, globe, impactBus>>

Resolve(c, M) ==
    \/ FetchPopulationDensity(c, M)
    \/ EstimateCasualties(c, M)
    \/ GeocodeResponse(c, M)
    \/ FactsResponse(c, M)
    \/ CellResponse(c, M)

(***************************************************************************)
(* Menus.                                                                  *)
(***************************************************************************)
Coord(lat, lon) == [lat |-> lat, lon |-> lon]

\* answers for the sample points 1..13
AllFail == [i \in 1..13 |-> IF i % 2 = 1 THEN SubmitFails ELSE NeverFinishes]
AllSucceed == [i \in 1..13 |->
                 TaskAnswering(1, Finished(Some(IF i % 2 = 1 THEN 3 ELSE 80)))]
AllZero == [i \in 1..13 |-> TaskAnswering(1, Finished(Some(0)))]
OddSucceed == [i \in 1..13 |->
                 IF i % 2 = 1 THEN TaskAnswering(2, Finished(Some(i)))
                 ELSE TaskAnswering(3, FinishedError(Some("x")))]

Kenya == Facts(Some("Kenya"), Some(10000000), Some(100000))
Monaco == Facts(None, Some(39000), Some(2))

\* Two callers, calls that overlap and follow each other, radii that need
\* no sampling.  10.00010 and 10.00040 share the 3-decimal key and differ
\* in the 4-decimal key.
ConcurrentMenu ==
    [again |-> TRUE,
     coords |-> {Coord(1000010, -7512340), Coord(1000040, -7512340)},
     radii |-> {NonFinite("NaN"), Metres(500)},
     geo |-> {GeoFails, GeoCode("ke")},
     facts |-> {FactsFail, Kenya},
     tasks |-> {SubmitFails, TaskAnswering(1, Finished(Some(3))),
                TaskAnswering(2, Finished(Some(80)))},
     samples |-> {}]

\* One call on cold caches, every kind of radius and of remote answer.
EstimateMenu ==
    [again |-> FALSE,
     coords |-> {Coord(1000010, -7512340), Coord(-40, 17999000)},
     radii |-> {NonFinite("NaN"), NonFinite("Infinity"), NonFinite("-Infinity"),
                Metres(-1000), Metres(0), Metres(500), Metres(1000), Metres(1001),
                Metres(5000),
                Metres(12000), Metres(1000000)},
     geo |-> {GeoFails, GeoNoCode, GeoCode("ke"), GeoCode("mc")},
     facts |-> {FactsFail, FactsEmpty, Kenya, Monaco,
                Facts(Some("Nowhere"), Some(0), Some(10)),
                Facts(Some("Nowhere"), None, Some(10)),
                Facts(Some("Nowhere"), Some(500), Some(0)),
                Facts(Some("Nowhere"), Some(500), Some(-3)),
                Facts(Some("Nowhere"), Some(500), None),
                Facts(Some("Nowhere"), Some(-5), Some(10)),
                Facts(Some("Nowhere"), Some(1), Some(10))},
     tasks |-> {SubmitFails, NoTaskId, NeverFinishes,
                TaskAnswering(2, PollFails),
                TaskAnswering(3, FinishedError(Some("x"))),
                TaskAnswering(3, FinishedError(None)),
                TaskAnswering(1, Finished(None)),
                TaskAnswering(1, Finished(Some(0))),
                TaskAnswering(2, Finished(Some(3))),
                TaskAnswering(8, Finished(Some(80))),
                TaskAnswering(1, Finished(Some(Infinity)))},
     samples |-> {AllFail, AllSucceed, AllZero, OddSucceed}]

Next == \E c \in Callers : Resolve(c, ConcurrentMenu)

Spec == Init /\ [][Next]_vars

NextEst == Resolve("a", EstimateMenu) \/ SamplerSettled("a", EstimateMenu)

SpecEst == Init /\ [][NextEst]_vars

\* the call is at an await: on the geocoder, on the country service, on
\* the resolver's cell fetch or on the sampler's fetches
Waiting(call) == call.pc \in {"geocode", "facts", "cell", "sampling"}

\* the awaited response reaches the call
Answered(c) == Waiting(calls[c]) /\ calls'[c] # calls[c]

\* weak fairness of Answered(c), with ENABLED spelled out: a response can
\* arrive exactly while the call waits
ResponsesArrive(c) == []<>(~Waiting(calls[c])) \/ []<><<Answered(c)>>_vars

\* SpecEst with every request answered in the end: each await of a call is
\* on a request, or on fetches made of requests and delay timers
SpecEstFair == SpecEst /\ ResponsesArrive("a")

\* One call on cold caches against a country service whose records, when it
\* answers, carry a positive population and a positive area.
CountryMenu ==
    [EstimateMenu EXCEPT
        !.facts = {FactsFail, Kenya, Monaco, Facts(Some("Nowhere"), Some(1), Some(10))}]

NextCountry == Resolve("a", CountryMenu) \/ SamplerSettled("a", CountryMenu)

SpecCountry == Init /\ [][NextCountry]_vars

\* One estimate whose seven sample fetches end one by one, in any order.
SamplerMenu ==
    [again |-> FALSE,
     coords |-> {Coord(1000049, -7512340)},
     radii |-> {Metres(-1000), Metres(5000)},
     geo |-> {GeoCode("ke")},
     facts |-> {Kenya},
     tasks |-> {SubmitFails, TaskAnswering(1, Finished(Some(3))),
                TaskAnswering(2, Finished(Some(80))),
                TaskAnswering(1, Finished(Some(Infinity)))},
     samples |-> {}]

\* Two callers, one call each, overlapping in any way: 10.00049 and 10.00051
\* differ in the 3-decimal key and share the 4-decimal key, and the sample
\* grids of 3000 m and of 5000 m share their centre only.
CellsMenu ==
    [again |-> FALSE,
     coords |-> {Coord(1000049, -7512340), Coord(1000051, -7512340)},
     radii |-> {Metres(0), Metres(500), Metres(3000), Metres(5000)},
     geo |-> {GeoFails, GeoCode("ke")},
     facts |-> {Kenya},
     tasks |-> {SubmitFails, TaskAnswering(1, Finished(Some(3))),
                TaskAnswering(2, Finished(Some(80)))},
     samples |-> {AllSucceed, OddSucceed}]

NextCells ==
    \E c \in Callers : Resolve(c, CellsMenu) \/ SamplerSettled(c, CellsMenu)

SpecCells == Init /\ [][NextCells]_vars

\* Two callers, one call each at the same coordinate, overlapping in any
\* way, with grids of 7 and of 13 points.
BudgetMenu ==
    [again |-> FALSE,
     coords |-> {Coord(1000049, -7512340)},
     radii |-> {Metres(500), Metres(5000), Metres(12000)},
     geo |-> {GeoCode("ke")},
     facts |-> {Kenya},
     tasks |-> {NeverFinishes, TaskAnswering(1, Finished(Some(3)))},
     samples |-> {AllFail, AllSucceed}]

NextBudget ==
    \E c \in Callers : Resolve(c, BudgetMenu) \/ SamplerSettled(c, BudgetMenu)

SpecBudget == Init /\ [][NextBudget]_vars

NextSampler == Resolve("a", SamplerMenu) \/ SampleFetchEnds("a", SamplerMenu)

SpecSampler == Init /\ [][NextSampler]_vars

(***************************************************************************)
(* The gridded-population client alone: one fetch, every sequence of poll  *)
(* responses.                                                              *)
(***************************************************************************)
\* a poll response whose status is neither "started" nor "finished"
Failing == [Pending EXCEPT !.status = "failed", !.error = TRUE]

SubmitAnswer(submitOk, taskid) == [submitOk |-> submitOk, taskid |-> taskid]

PollMenu ==
    [submits |-> {SubmitAnswer(FALSE, None), SubmitAnswer(FALSE, Some("t")),
                  SubmitAnswer(TRUE, None),
                  SubmitAnswer(TRUE, Some("")), SubmitAnswer(TRUE, Some("t"))},
     bodies |-> {Pending, Failing, PollFails,
                 Finished(Some(0)), Finished(Some(3)), Finished(Some(Infinity)),
                 Finished(None),
                 FinishedError(Some("x")), FinishedError(Some("")), FinishedError(None)}]

\* line 172: the submit request goes out
TaskSubmit ==
    /\ remoteTask.pc = "idle"
    /\ remoteTask' = [remoteTask EXCEPT !.pc = "submitted"]
    /\ UNCHANGED <<locationCache, cellPopulationCache, calls, completed, started, batch,
                   probe, globe, impactBus>>

\* lines 172-189: the submit response arrives
TaskSubmitResponse ==
    /\ remoteTask.pc = "submitted"
    /\ \E resp \in PollMenu.submits : remoteTask' = afterSubmit(remoteTask, resp)
    /\ UNCHANGED <<locationCache, cellPopulationCache, calls, completed, started, batch,
                   probe, globe, impactBus>>

\* lines 189-219: a poll response arrives
TaskPollResponse ==
    /\ remoteTask.pc = "polling"
    /\ \E body \in PollMenu.bodies : remoteTask' = afterPoll(remoteTask, body)
    /\ UNCHANGED <<locationCache, cellPopulationCache, calls, completed, started, batch,
                   probe, globe, impactBus>>

NextPoll == TaskSubmit \/ TaskSubmitResponse \/ TaskPollResponse

SpecPoll == Init /\ [][NextPoll]_vars

(***************************************************************************)
(* One batch of the sampler (lines 261-271), every fetch step by step: the *)
(* callbacks of points.map run in order up to their first await, so all    *)
(* submit requests go out in the step that starts the batch; after that    *)
(* each response and each timer is a step of its own fetch.                *)
(***************************************************************************)
BatchMenu ==
    [submits |-> {SubmitAnswer(FALSE, None), SubmitAnswer(TRUE, Some("t"))},
     bodies |-> {Pending, PollFails, Finished(Some(3))}]

\* lines 261-270: the tasks are created, each sends its submit request
BatchStart ==
    /\ batch = <<>>
    /\ batch' = [i \in 1..BatchSize |-> startFetch(IdleFetch)]
    /\ UNCHANGED <<locationCache, cellPopulationCache, calls, completed, started,
                   remoteTask, probe, globe, impactBus>>

\* lines 172-187: the submit response of fetch i arrives
FetchSubmitResponse(i) ==
    /\ batch[i].pc = "submitted"
    /\ \E resp \in BatchMenu.submits :
           batch' = [batch EXCEPT ![i] = submitAnswered(@, resp)]
    /\ UNCHANGED <<locationCache, cellPopulationCache, calls, completed, started,
                   remoteTask, probe, globe, impactBus>>

\* lines 187-189: the delay of fetch i elapses and its poll goes out
FetchDelayElapsed(i) ==
    /\ pollDue(batch[i])
    /\ batch' = [batch EXCEPT ![i] = delayElapsed(@)]
    /\ UNCHANGED <<locationCache, cellPopulationCache, calls, completed, started,
                   remoteTask, probe, globe, impactBus>>

\* lines 189-217: a poll response of fetch i arrives
FetchPollResponse(i) ==
    /\ batch[i].pc = "polling"
    /\ \E body \in BatchMenu.bodies :
           batch' = [batch EXCEPT ![i] = pollAnswered(@, body)]
    /\ UNCHANGED <<locationCache, cellPopulationCache, calls, completed, started,
                   remoteTask, probe, globe, impactBus>>

FetchStep(i) == FetchSubmitResponse(i) \/ FetchDelayElapsed(i) \/ FetchPollResponse(i)

NextBatch ==
    \/ BatchStart
    \/ \E i \in DOMAIN batch : FetchSubmitResponse(i)
    \/ \E i \in DOMAIN batch : FetchDelayElapsed(i)
    \/ \E i \in DOMAIN batch : FetchPollResponse(i)

SpecBatch == Init /\ [][NextBatch]_vars

(***************************************************************************)
(* The variant of src/app/src/services/populationDensity.ts: one cell      *)
(* lookup, no sampler, and an estimate without caps.  Line numbers in this *)
(* section are those of that file.  Units as above.                        *)
(***************************************************************************)
\* line 265: the constant local to the variant's estimateCasualties
APP_LOCAL_INFLUENCE_SCALE_KM == 5

\* lines 76-106: the record carries no countryPopulation, no countryAreaKm2
appLoadCountryFacts(iso2, resp) ==
    IF ~resp.ok THEN Throw("Request failed")
    ELSE IF resp.country = None THEN Throw("No country data returned")
    ELSE IF ~TruthyNum(resp.country[1].population)
            \/ ~TruthyNum(resp.country[1].area)
            \/ resp.country[1].area[1] <= 0
         THEN Throw("Population or area unavailable")
    ELSE LET country == resp.country[1]
             density == Density(country.population[1], country.area[1])
         IN  Return([countryCode |-> ToUpperCase(iso2),
                     countryName |-> Nullish(country.name, Some(ToUpperCase(iso2)))[1],
                     population |-> country.population[1],
                     areaKm2 |-> country.area[1] * 100,
                     densityPerSqKm |-> density,
                     source |-> "BigDataCloud reverse geocode + RestCountries",
                     notes |-> None,
                     localCellPopulation |-> None,
                     localCellAreaKm2 |-> None,
                     localCellDensityPerSqKm |-> None,
                     countryMeanDensityPerSqKm |-> Some(density)])

\* lines 175-189: the two lookups, each error caught and logged
appCountryFacts(geo, facts) ==
    LET country == resolveCountry(geo)
        iso2 == IF country.threw THEN None ELSE country.value
    IN  IF ~TruthyStr(iso2) THEN [iso2 |-> iso2, countryFacts |-> None]
        ELSE LET loaded == appLoadCountryFacts(iso2[1], facts)
             IN  [iso2 |-> iso2,
                  countryFacts |-> IF loaded.threw THEN None ELSE loaded.value]

\* lines 168-245 on a cold cache, for the answers of the three services;
\* cell is the outcome of fetchWorldPopCellPopulation
appFetchPopulationDensity(geo, facts, cell) ==
    LET found == appCountryFacts(geo, facts)
        iso2 == found.iso2
        countryFacts == found.countryFacts
    IN  IF ~cell.threw
        THEN LET cellPopulation == cell.value[1]
                 cellDensity == CellDensity(cellPopulation)
             IN  [countryCode |-> IF countryFacts # None THEN countryFacts[1].countryCode
                                  ELSE UpperOr(iso2, "NA"),
                  countryName |-> IF countryFacts # None THEN countryFacts[1].countryName
                                  ELSE UpperOr(iso2, "Unknown region"),
                  population |-> cellPopulation,
                  areaKm2 |-> WORLDPOP_CELL_AREA_KM2,
                  densityPerSqKm |-> cellDensity,
                  source |-> "WorldPop 100m (2020)",
                  notes |-> IF countryFacts # None
                            THEN <<"Country-wide mean density",
                                   countryFacts[1].densityPerSqKm>>
                            ELSE None,
                  localCellPopulation |-> Some(cellPopulation),
                  localCellAreaKm2 |-> Some(WORLDPOP_CELL_AREA_KM2),
                  localCellDensityPerSqKm |-> Some(cellDensity),
                  countryMeanDensityPerSqKm |->
                      IF countryFacts # None THEN Some(countryFacts[1].densityPerSqKm)
                      ELSE None]
        ELSE IF countryFacts # None
        THEN [countryFacts[1] EXCEPT
                 !.notes = <<"WorldPop lookup unavailable; using national average density.">>,
                 !.localCellPopulation = None,
                 !.localCellAreaKm2 = None,
                 !.localCellDensityPerSqKm = None,
                 !.countryMeanDensityPerSqKm = Some(countryFacts[1].densityPerSqKm)]
        ELSE [countryCode |-> UpperOr(iso2, "NA"),
              countryName |-> UpperOr(iso2, "Unknown region"),
              population |-> 0,
              areaKm2 |-> 100,
              densityPerSqKm |-> 0,
              source |-> "Population data unavailable",
              notes |-> <<"Neither WorldPop nor RestCountries returned data for this coordinate.">>,
              localCellPopulation |-> None,
              localCellAreaKm2 |-> None,
              localCellDensityPerSqKm |-> None,
              countryMeanDensityPerSqKm |-> Some(0)]

\* line 266, in 1/1000
appLocalWeight(blastRadiusM) ==
    LET x == (Max2(0, blastRadiusM) * 10) \div APP_LOCAL_INFLUENCE_SCALE_KM
    IN  (ExpWhole(x \div 10000) * ExpFrac(x % 10000)) \div 100000

\* lines 252-281 for the density fetchPopulationDensity returned;
\* estimatedCasualties in 0.001 person
appEstimateCasualties(density, blastRadiusM) ==
    IF invalidRadius(blastRadiusM)
    THEN Throw("Blast radius must be a positive number of meters")
    ELSE LET impactAreaKm2 == impactArea(blastRadiusM.m)
             localDensity == Nullish(density.localCellDensityPerSqKm,
                                     Some(density.densityPerSqKm))[1]
             countryDensity == Nullish(density.countryMeanDensityPerSqKm,
                                       Some(density.densityPerSqKm))[1]
             weight == appLocalWeight(blastRadiusM.m)
             blendedDensity ==
                 (localDensity * weight + countryDensity * (1000 - weight)) \div 1000
             maxBaseline == Max2(Max2(localDensity, countryDensity), 1 * 10)
             effectiveDensity == Min2(blendedDensity, maxBaseline * 5)
         IN  Return([density |-> density,
                     blastRadiusM |-> blastRadiusM,
                     impactAreaKm2 |-> impactAreaKm2,
                     effectiveDensityPerSqKm |-> effectiveDensity,
                     estimatedCasualties |->
                         SW(effectiveDensity < 0,
                            WMulNat(impactAreaKm2, Abs(effectiveDensity)))])

\* One call of the variant on a cold cache: the answers of the services are
\* fixed at the start, then estimateCasualties runs for one radius.
AppMenu ==
    [geo |-> {GeoFails, GeoCode("ke"), GeoCode("mc")},
     facts |-> {FactsFail, Kenya, Monaco, Facts(Some("Nowhere"), Some(1), Some(10)),
                Facts(Some("Negative"), Some(-5), Some(10))},
     cells |-> {Throw("WorldPop task polling timed out"),
                Return(0), Return(3), Return(200)},
     radii |-> {NonFinite("NaN"), Metres(0), Metres(100), Metres(1000),
                Metres(5000), Metres(100000)}]

InitApp ==
    /\ locationCache = EmptyMap
    /\ cellPopulationCache = EmptyMap
    /\ calls = [c \in Callers |-> IdleCall]
    /\ completed = EmptyMap
    /\ started = 0
    /\ remoteTask = IdleTask
    /\ batch = <<>>
    /\ globe = IdleGlobe
    /\ impactBus = IdleBus
    /\ \E geo \in AppMenu.geo, facts \in AppMenu.facts, cell \in AppMenu.cells :
           probe = [fn |-> "appEstimateCasualties", geo |-> geo, facts |-> facts,
                    cell |-> cell, countryFacts |-> None, out |-> None]

\* lines 247-282: the call, with the fetchPopulationDensity it awaits
AppEstimateCasualties ==
    /\ probe.fn = "appEstimateCasualties" /\ probe.out = None
    /\ \E blastRadiusM \in AppMenu.radii :
           probe' = [probe EXCEPT
                       !.countryFacts =
                           appCountryFacts(probe.geo, probe.facts).countryFacts,
                       !.out = Some(appEstimateCasualties(
                                        appFetchPopulationDensity(probe.geo, probe.facts,
                                                                  probe.cell),
                                        blastRadiusM))]
    /\ UNCHANGED <<locationCache, cellPopulationCache, calls, completed, started,
                   remoteTask, batch, globe, impactBus>>

NextApp == AppEstimateCasualties

SpecApp == InitApp /\ [][NextApp]_vars

(***************************************************************************)
(* The blend of estimateCasualties (lines 394-404) on its own: densities   *)
(* and sample statistics are fixed at the start, then the effective        *)
(* density is computed for radii taken in increasing order.  Densities are *)
(* in 0.1 person per km^2.                                                 *)
(***************************************************************************)
BlendLocals == {0, 1, 500, 20000, 100000, Infinity}
BlendNationals == {-50, 0, 1000, 20000, 80000}
BlendStats ==
    {None,
     Some([meanDensity |-> 3000, maxDensity |-> 5000, minDensity |-> 1000,
           sampleCount |-> 2]),
     Some([meanDensity |-> 40000, maxDensity |-> 80000, minDensity |-> 0,
           sampleCount |-> 7]),
     Some([meanDensity |-> 0, maxDensity |-> 0, minDensity |-> 0,
           sampleCount |-> 3])}
BlendRadii == {1, 500, 1000, 5000, 12000, 20000, 60000, 1000000}

\* a resolved density with the given cell density and country mean density
blendDensity(local, national) ==
    [griddedResult(Some("ke"), None, 0) EXCEPT
        !.densityPerSqKm = local,
        !.localCellDensityPerSqKm = Some(local),
        !.countryMeanDensityPerSqKm = Some(national)]

InitBlend ==
    /\ locationCache = EmptyMap
    /\ cellPopulationCache = EmptyMap
    /\ calls = [c \in Callers |-> IdleCall]
    /\ completed = EmptyMap
    /\ started = 0
    /\ remoteTask = IdleTask
    /\ batch = <<>>
    /\ globe = IdleGlobe
    /\ impactBus = IdleBus
    /\ \E local \in BlendLocals, national \in BlendNationals, stats \in BlendStats :
           probe = [fn |-> "effectiveDensity", local |-> local, national |-> national,
                    stats |-> stats, radius |-> 0, blended |-> None,
                    ceiling |-> None, effective |-> None, previous |-> None]

\* lines 394-404 for the next, greater radius
EffectiveDensityAt ==
    /\ probe.fn = "effectiveDensity"
    /\ \E r \in BlendRadii :
           /\ r > probe.radius
           /\ LET density == blendDensity(probe.local, probe.national)
                  localDensity == localDensityOf(density, probe.stats)
                  countryDensity == countryDensityOf(density)
              IN  probe' = [probe EXCEPT
                      !.radius = r,
                      !.previous = probe.effective,
                      !.blended = Some(blendedDensityOf(localDensity, countryDensity,
                                                        localWeight(r))),
                      !.ceiling = Some(densityCeilingOf(localDensity, countryDensity,
                                                        probe.stats)),
                      !.effective =
                          Some(casualtyEstimate(density, probe.stats, r)
                                   .effectiveDensityPerSqKm)]
    /\ UNCHANGED <<locationCache, cellPopulationCache, calls, completed, started,
                   remoteTask, batch, globe, impactBus>>

NextBlend == EffectiveDensityAt

SpecBlend == InitBlend /\ [][NextBlend]_vars

(***************************************************************************)
(* destinationPoint (lines 64-87) on its own: a start coordinate is fixed, *)
(* then the point at a ring distance and a sample bearing is computed.     *)
(***************************************************************************)
StartLatitudes == {0, 1000010, -4500000, 6000000}
StartLongitudes == {-18000000, -17999000, -7512340, 0, 17999000, 18000000}
RingDistances == {2000, 3000, 36000, 60000}

InitPoint ==
    /\ locationCache = EmptyMap
    /\ cellPopulationCache = EmptyMap
    /\ calls = [c \in Callers |-> IdleCall]
    /\ completed = EmptyMap
    /\ started = 0
    /\ remoteTask = IdleTask
    /\ batch = <<>>
    /\ globe = IdleGlobe
    /\ impactBus = IdleBus
    /\ \E lat \in StartLatitudes, lon \in StartLongitudes :
           probe = [fn |-> "destinationPoint", lat |-> lat, lon |-> lon,
                    distanceM |-> 0, bearing |-> 0, point |-> None]

\* lines 64-87 for one ring distance and one bearing of generateSamplePoints
DestinationPoint ==
    /\ probe.fn = "destinationPoint"
    /\ probe.point = None
    /\ \E d \in RingDistances, i \in 0..(MAX_SAMPLE_BEARINGS - 1) :
           probe' = [probe EXCEPT
                        !.distanceM = d, !.bearing = i,
                        !.point = Some(destinationPoint(probe.lat, probe.lon, d, i))]
    /\ UNCHANGED <<locationCache, cellPopulationCache, calls, completed, started,
                   remoteTask, batch, globe, impactBus>>

NextPoint == DestinationPoint

SpecPoint == InitPoint /\ [][NextPoint]_vars

(***************************************************************************)
(* generateSamplePoints (lines 232-256) on its own: a centre is fixed,     *)
(* then the grid of one nominal radius is computed.                        *)
(***************************************************************************)
GridRadii == {1, 1001, 2000, 3000, 3334, 5000, 10000, 10001, 12000, 59999,
              60000, 100000, 1000000}

InitGrid ==
    /\ locationCache = EmptyMap
    /\ cellPopulationCache = EmptyMap
    /\ calls = [c \in Callers |-> IdleCall]
    /\ completed = EmptyMap
    /\ started = 0
    /\ remoteTask = IdleTask
    /\ batch = <<>>
    /\ globe = IdleGlobe
    /\ impactBus = IdleBus
    /\ \E lat \in StartLatitudes, lon \in StartLongitudes :
           probe = [fn |-> "generateSamplePoints", lat |-> lat, lon |-> lon,
                    radiusM |-> 0, points |-> <<>>]

\* lines 232-256 for one nominal radius
GenerateSamplePoints ==
    /\ probe.fn = "generateSamplePoints"
    /\ probe.points = <<>>
    /\ \E r \in GridRadii :
           probe' = [probe EXCEPT
                        !.radiusM = r,
                        !.points = generateSamplePoints(probe.lat, probe.lon, r)]
    /\ UNCHANGED <<locationCache, cellPopulationCache, calls, completed, started,
                   remoteTask, batch, globe, impactBus>>

NextGrid == GenerateSamplePoints

SpecGrid == InitGrid /\ [][NextGrid]_vars

(***************************************************************************)
(* The globe, event by event: a click, the settling of a click's           *)
(* estimateCasualties promise, the two timers, the end of a tsunami's      *)
(* animation and the reset button.                                         *)
(***************************************************************************)
MaxClicks == 2

GlobeMenu ==
    [places |-> {Coord(1000049, -7512340)},
     radii |-> {Metres(0), Metres(5000), NonFinite("Infinity")}]

\* a promise that is already rejected when the handler returns: its .catch
\* runs as a job before any other event
jobPending(g) == \E id \in DOMAIN g.estimates : invalidRadius(g.estimates[id])

\* lines 318-419, for a click that picked a position on the globe
Click ==
    /\ globe.idRef < MaxClicks
    /\ ~jobPending(globe)
    /\ \E at \in GlobeMenu.places, radius \in GlobeMenu.radii :
           globe' = click(globe, at, radius)
    /\ UNCHANGED <<locationCache, cellPopulationCache, calls, completed, started,
                   remoteTask, batch, probe, impactBus>>

\* lines 383-395
EstimateSettles ==
    /\ \E id \in DOMAIN globe.estimates :
           /\ jobPending(globe) => invalidRadius(globe.estimates[id])
           /\ globe' = estimateSettled(globe, id)
    /\ UNCHANGED <<locationCache, cellPopulationCache, calls, completed, started,
                   remoteTask, batch, probe, impactBus>>

\* lines 409-418
MeteorLands ==
    /\ ~jobPending(globe)
    /\ globe.meteorTimers # <<>>
    /\ globe' = meteorLanded(globe)
    /\ UNCHANGED <<locationCache, cellPopulationCache, calls, completed, started,
                   remoteTask, batch, probe, impactBus>>

\* lines 415-417
TsunamiStarts ==
    /\ ~jobPending(globe)
    /\ globe.tsunamiTimers # <<>>
    /\ globe' = tsunamiStarted(globe)
    /\ UNCHANGED <<locationCache, cellPopulationCache, calls, completed, started,
                   remoteTask, batch, probe, impactBus>>

\* line 619
TsunamiEnds ==
    /\ ~jobPending(globe)
    /\ \E i \in 1..Len(globe.tsunamis) : globe' = tsunamiEnded(globe, i)
    /\ UNCHANGED <<locationCache, cellPopulationCache, calls, completed, started,
                   remoteTask, batch, probe, impactBus>>

\* lines 485-494
ResetGlobe ==
    /\ ~jobPending(globe)
    /\ globe' = resetGlobe(globe)
    /\ UNCHANGED <<locationCache, cellPopulationCache, calls, completed, started,
                   remoteTask, batch, probe, impactBus>>

NextGlobe ==
    \/ Click
    \/ EstimateSettles
    \/ MeteorLands
    \/ TsunamiStarts
    \/ TsunamiEnds
    \/ ResetGlobe

SpecGlobe == Init /\ [][NextGlobe]_vars

(***************************************************************************)
(* The impact bus, call by call.                                           *)
(***************************************************************************)
MaxSets == 2
MaxSubscribes == 2

\* patches: one field, two fields, and the one AsteroidSettings sends with no
\* asteroid selected (line 120)
Patches ==
    {[diameterM |-> 0],
     [diameterM |-> 250, velocityMS |-> 17000],
     [diameterM |-> 100, velocityMS |-> 20000, densityKgM3 |-> 3000,
      energyMt |-> Some(48), material |-> "rock", angleDeg |-> 45,
      neo_reference_id |-> None]}

SetImpact ==
    /\ impactBus.sets < MaxSets
    /\ \E patch \in Patches : impactBus' = setImpact(impactBus, patch)
    /\ UNCHANGED <<locationCache, cellPopulationCache, calls, completed, started,
                   remoteTask, batch, probe, globe>>

SubscribeImpact ==
    /\ impactBus.subscribes < MaxSubscribes
    /\ \E fn \in Listeners : impactBus' = subscribeImpact(impactBus, fn)
    /\ UNCHANGED <<locationCache, cellPopulationCache, calls, completed, started,
                   remoteTask, batch, probe, globe>>

\* an unsubscribe function that subscribeImpact returned is called
Unsubscribe ==
    /\ \E fn \in impactBus.handles : impactBus' = unsubscribe(impactBus, fn)
    /\ UNCHANGED <<locationCache, cellPopulationCache, calls, completed, started,
                   remoteTask, batch, probe, globe>>

GetImpact ==
    /\ impactBus' = [impactBus EXCEPT !.got = Some(getImpact(impactBus))]
    /\ UNCHANGED <<locationCache, cellPopulationCache, calls, completed, started,
                   remoteTask, batch, probe, globe>>

NextBus ==
    \/ SetImpact
    \/ SubscribeImpact
    \/ Unsubscribe
    \/ GetImpact

SpecBus == Init /\ [][NextBus]_vars

(***************************************************************************)
(* Properties.                                                             *)
(***************************************************************************)
\* the location key of a call's coordinate
keyOf(call) == locationKey(call.lat, call.lon)

\* fetchPopulationDensity has returned inside the call
Resolved(call) == call.pc \in {"sampling", "returned"}

\* the PopulationDensityResult fetchPopulationDensity returned to the call
densityOf(call) ==
    IF call.op = "fetchPopulationDensity" THEN call.result[1] ELSE call.density[1]

\* every sample point of the call failed (no point when the sampler did not run)
NoSampleSucceeded(call) == \A i \in 1..Len(call.tasks) : call.tasks[i].value = None

InvalidInput == "Blast radius must be a positive number of meters"

\* C1: every CasualtyEstimate that estimateCasualties returns has
\* estimatedCasualties >= 0, <= GLOBAL_POPULATION_CAP and, when the resolved
\* result carries a country population, <= 0.9 x that country population.
C1_CasualtyBounds ==
    \A c \in Callers :
        calls[c].op = "estimateCasualties" /\ calls[c].pc = "returned" =>
            LET e == calls[c].result[1]
            IN  /\ SWLeq(SWZero, e.estimatedCasualties)
                /\ SWLeq(e.estimatedCasualties,
                         SW(FALSE, WMulNat(GLOBAL_POPULATION_CAP, 1000)))
                /\ e.density.countryPopulation # None =>
                       SWLeq(e.estimatedCasualties,
                             SWFromIntTimes(e.density.countryPopulation[1], 900))

\* C2: no failure of a remote service rejects fetchPopulationDensity or
\* estimateCasualties: a call is rejected only by estimateCasualties'
\* InvalidInput check, before any request was sent.
C2_OnlyInvalidInputRejects ==
    \A c \in Callers :
        calls[c].pc = "rejected" =>
            /\ calls[c].op = "estimateCasualties"
            /\ calls[c].error = InvalidInput
            /\ calls[c].requests = NoRequests

\* an estimate was returned although the geocoder, the cell lookup and all
\* thirteen sample points failed
C2_ReturnedAfterAllFailed ==
    \E c \in Callers :
        /\ calls[c].op = "estimateCasualties" /\ calls[c].pc = "returned"
        /\ calls[c].geo = "failed" /\ calls[c].cell = "failed"
        /\ Len(calls[c].tasks) = 13 /\ NoSampleSucceeded(calls[c])
        /\ calls[c].requests.geocode = 1

\* C3: estimateCasualties is rejected with InvalidInput exactly when the
\* radius is NaN, +Infinity, -Infinity, zero or negative; for a finite
\* positive radius it is never rejected.
C3_InvalidInputIffBadRadius ==
    \A c \in Callers :
        calls[c].op = "estimateCasualties" =>
            LET r == calls[c].blastRadiusM
                bad == \/ r.kind \in {"NaN", "Infinity", "-Infinity"}
                       \/ r.kind = "finite" /\ r.m <= 0
            IN  /\ bad => calls[c].pc = "rejected" /\ calls[c].error = InvalidInput
                /\ ~bad => calls[c].pc # "rejected"

\* a call with radius +Infinity was rejected
C3_InfiniteRadiusRejected ==
    \E c \in Callers :
        /\ calls[c].op = "estimateCasualties" /\ calls[c].pc = "rejected"
        /\ calls[c].blastRadiusM = NonFinite("Infinity")
        /\ calls[c].error = InvalidInput

\* C4: once a resolution for a coordinate has completed, every later
\* resolution for a coordinate with the same 3-decimal key returns the
\* identical PopulationDensityResult and sends no request.
C4_LaterResolutionIdentical ==
    \A c \in Callers :
        Resolved(calls[c]) /\ calls[c].seen # {} =>
            /\ calls[c].requests = NoRequests
            /\ \A r \in calls[c].seen : densityOf(calls[c]) = r

\* C5: whatever path a resolution takes (gridded, country fallback, no-data
\* fallback, cache hit), at the step where it returns its result the
\* location cache holds that result under the coordinate's key.
C5_CachedBeforeReturn ==
    [][\A c \in Callers :
           calls'[c] # calls[c] /\ Resolved(calls'[c]) =>
               /\ keyOf(calls'[c]) \in DOMAIN locationCache'
               /\ locationCache'[keyOf(calls'[c])] = densityOf(calls'[c])]_vars

\* a resolution that missed the cache and found no data has returned its
\* fallback, and the cache holds it
C5_FallbackCached ==
    \E c \in Callers :
        /\ calls[c].pc = "returned" /\ ~calls[c].hit
        /\ calls[c].cell = "failed" /\ calls[c].countryFacts = None
        /\ keyOf(calls[c]) \in DOMAIN locationCache
        /\ locationCache[keyOf(calls[c])] = densityOf(calls[c])
        /\ densityOf(calls[c]).source = "Population data unavailable"

\* C6: an entry of the location cache or of the cell cache, once written,
\* is never removed or given another value, overlapping calls included.
C6_CacheEntriesImmutable ==
    [][/\ \A k \in DOMAIN locationCache :
              k \in DOMAIN locationCache' /\ locationCache'[k] = locationCache[k]
       /\ \A k \in DOMAIN cellPopulationCache :
              k \in DOMAIN cellPopulationCache'
              /\ cellPopulationCache'[k] = cellPopulationCache[k]]_vars

\* C7: resolutions of the same location key that overlap (each started
\* before the other had cached a result, so both missed the cache) return
\* the same result, and the cache holds that result.
C7_OverlappingSameResult ==
    \A c1, c2 \in Callers :
        (/\ c1 # c2
         /\ Resolved(calls[c1]) /\ Resolved(calls[c2])
         /\ ~calls[c1].hit /\ ~calls[c2].hit
         /\ keyOf(calls[c1]) = keyOf(calls[c2])) =>
            /\ densityOf(calls[c1]) = densityOf(calls[c2])
            /\ locationCache[keyOf(calls[c1])] = densityOf(calls[c1])

\* C8: when the country facts (the geocoder or the country service) and the
\* cell lookup all fail, the resolution returns density 0, population 0 and
\* non-empty notes; estimateCasualties, its sample points failing too,
\* then returns estimatedCasualties = 0.
C8_TotalFailure ==
    \A c \in Callers :
        (/\ Resolved(calls[c]) /\ ~calls[c].hit
         /\ calls[c].geo = "failed" \/ calls[c].facts = "failed"
         /\ calls[c].cell = "failed") =>
            /\ densityOf(calls[c]).densityPerSqKm = 0
            /\ densityOf(calls[c]).population = 0
            /\ densityOf(calls[c]).notes # None
            /\ densityOf(calls[c]).notes[1] # ""
            /\ (/\ calls[c].op = "estimateCasualties"
                /\ calls[c].pc = "returned"
                /\ NoSampleSucceeded(calls[c])) =>
                   calls[c].result[1].estimatedCasualties = SWZero

\* an estimate for a 12 km radius was returned after the geocoder, the cell
\* lookup and the thirteen sample points had failed
C8_EstimateAfterTotalFailure ==
    \E c \in Callers :
        /\ calls[c].op = "estimateCasualties" /\ calls[c].pc = "returned"
        /\ calls[c].blastRadiusM = Metres(12000)
        /\ calls[c].geo = "failed" /\ calls[c].cell = "failed"
        /\ Len(calls[c].tasks) = 13 /\ NoSampleSucceeded(calls[c])
        /\ calls[c].result[1].estimatedCasualties = SWZero
        /\ calls[c].result[1].density.notes # None

\* the country-level result of a resolution whose country facts were
\* obtained and whose cell lookup failed
CountryLevel(call) ==
    LET d == densityOf(call)
    IN  /\ d.population = call.countryFacts[1].population
        /\ d.areaKm2 = call.countryFacts[1].areaKm2
        /\ d.densityPerSqKm = (d.population * 10) \div (d.areaKm2 \div 100)
        /\ d.notes = <<"WorldPop lookup unavailable; using national average density.">>
        /\ d.localCellPopulation = None
        /\ d.localCellAreaKm2 = None
        /\ d.localCellDensityPerSqKm = None

\* the country facts were obtained and the cell lookup failed
CountryOnly(call) ==
    Resolved(call) /\ ~call.hit /\ call.facts = "ok" /\ call.cell = "failed"

\* the estimate of the example: 10,000,000 people on 100,000 km^2, 5000 m
ExampleEstimate(call) ==
    /\ call.countryFacts[1].population = 10000000
    /\ call.countryFacts[1].areaKm2 = 100000 * 100
    /\ call.blastRadiusM = Metres(5000)

\* C9 as stated: country facts obtained and cell lookup failed give the
\* country-level result; with no sample point succeeding the effective
\* density is the national density, and the example gives 100 x pi x 25.
C9_NationalDensityEffective ==
    \A c \in Callers :
        CountryOnly(calls[c]) =>
            /\ CountryLevel(calls[c])
            /\ (/\ calls[c].op = "estimateCasualties"
                /\ calls[c].pc = "returned"
                /\ NoSampleSucceeded(calls[c])) =>
                   /\ calls[c].result[1].effectiveDensityPerSqKm =
                          densityOf(calls[c]).densityPerSqKm
                   /\ ExampleEstimate(calls[c]) =>
                          calls[c].result[1].estimatedCasualties =
                              SW(FALSE, WFromNat(7854 * 1000))

\* C9 amended: as C9, the effective density being the national density
\* clamped into [0, GLOBAL_DENSITY_CEILING_PER_KM2].
C9_NationalDensityClamped ==
    \A c \in Callers :
        CountryOnly(calls[c]) =>
            /\ CountryLevel(calls[c])
            /\ (/\ calls[c].op = "estimateCasualties"
                /\ calls[c].pc = "returned"
                /\ NoSampleSucceeded(calls[c])) =>
                   /\ calls[c].result[1].effectiveDensityPerSqKm =
                          Min2(Max2(densityOf(calls[c]).densityPerSqKm, 0),
                               GLOBAL_DENSITY_CEILING_PER_KM2 * 10)
                   /\ ExampleEstimate(calls[c]) =>
                          calls[c].result[1].estimatedCasualties =
                              SW(FALSE, WFromNat(7854 * 1000))

\* the example's estimate was returned after its seven sample points failed
C9_ExampleReturned ==
    \E c \in Callers :
        /\ CountryOnly(calls[c]) /\ ExampleEstimate(calls[c])
        /\ calls[c].op = "estimateCasualties" /\ calls[c].pc = "returned"
        /\ Len(calls[c].tasks) = 7 /\ NoSampleSucceeded(calls[c])
        /\ calls[c].result[1].effectiveDensityPerSqKm = 100 * 10
        /\ calls[c].result[1].estimatedCasualties = SW(FALSE, WFromNat(7854 * 1000))

\* the sources of a resolution that succeeded
CellSucceeded(call) == call.cell \in {"ok", "cached"}
FactsSucceeded(call) == call.facts = "ok"

LocalFieldsOnlyFromCell(call) ==
    LET d == densityOf(call)
    IN  (\/ d.localCellPopulation # None
         \/ d.localCellAreaKm2 # None
         \/ d.localCellDensityPerSqKm # None) => CellSucceeded(call)

\* C10: every result has densityPerSqKm, and an optional field is
\* present only if its source succeeded: no local-cell field when the cell
\* lookup failed, no country-derived field when the country facts failed.
C10_FieldsOnlyFromSucceededSource ==
    \A c \in Callers :
        Resolved(calls[c]) /\ ~calls[c].hit =>
            LET d == densityOf(calls[c])
            IN  /\ d.densityPerSqKm \in Int
                /\ LocalFieldsOnlyFromCell(calls[c])
                /\ (\/ d.countryPopulation # None
                    \/ d.countryAreaKm2 # None
                    \/ d.countryMeanDensityPerSqKm # None) => FactsSucceeded(calls[c])

\* every poll response so far was delivered with a status other than "finished"
NoneFinished(task) ==
    \A i \in 1..Len(task.responses) :
        task.responses[i].ok /\ task.responses[i].status # "finished"

\* the submit response was accepted: the request succeeded and named a task
SubmitAccepted(task) ==
    task.submit # None /\ task.submit[1].submitOk /\ TruthyStr(task.submit[1].taskid)

PollTimeout == "WorldPop task polling timed out"

C12_FinishedErrorEndsPolling ==
    \A k \in 1..Len(remoteTask.responses) :
        LET body == remoteTask.responses[k]
        IN  (body.ok /\ body.status = "finished" /\ body.error) =>
                /\ k \in 1..WORLDPOP_MAX_POLLS
                /\ remoteTask.pc = "settled"
                /\ Len(remoteTask.responses) = k
                /\ remoteTask.polls = k
                /\ remoteTask.out[1].threw
                /\ TruthyStr(body.error_message) =>
                       remoteTask.out[1].error = body.error_message[1]
                /\ ~TruthyStr(body.error_message) =>
                       remoteTask.out[1].error = "WorldPop task returned an error"

\* the third poll answered finished, error, "x": the call failed with "x"
\* after three polls
C12_ErrorAtThirdPoll ==
    /\ remoteTask.pc = "settled"
    /\ Len(remoteTask.responses) = 3
    /\ remoteTask.responses[3] = FinishedError(Some("x"))
    /\ remoteTask.polls = 3
    /\ remoteTask.out = Some(Throw("x"))

\* the last poll response received
LastResponse(task) == task.responses[Len(task.responses)]

\* the remote task finished without the error flag: the client returns the
\* population, or fails when the response carries none
FinishedSuccess(task) ==
    /\ LastResponse(task).ok
    /\ LastResponse(task).status = "finished" /\ ~LastResponse(task).error
    /\ task.out = Some(IF LastResponse(task).total_population = None
                       THEN Throw("WorldPop task returned invalid population data")
                       ELSE Return(LastResponse(task).total_population[1]))

FinishedWithError(task) ==
    /\ LastResponse(task).ok
    /\ LastResponse(task).status = "finished" /\ LastResponse(task).error
    /\ task.out[1].threw

TimedOut(task) ==
    /\ NoneFinished(task) /\ task.polls = WORLDPOP_MAX_POLLS
    /\ task.out = Some(Throw(PollTimeout))

\* a poll request was answered with an HTTP failure
PollFailed(task) ==
    /\ ~LastResponse(task).ok
    /\ task.out = Some(Throw("WorldPop task polling failed"))

\* submitted -> polling(attempt 1..N) -> settled
TaskPhases(task) ==
    /\ task.pc \in {"idle", "submitted", "polling", "settled"}
    /\ task.pc \in {"idle", "submitted"} => task.polls = 0 /\ task.responses = <<>>
    /\ task.pc = "polling" =>
           /\ SubmitAccepted(task)
           /\ task.polls \in 1..WORLDPOP_MAX_POLLS
           /\ Len(task.responses) = task.polls - 1
    /\ (task.pc = "settled" /\ task.polls > 0) =>
           SubmitAccepted(task) /\ Len(task.responses) = task.polls

Succeeded(call) ==
    {i \in 1..Len(call.tasks) : call.tasks[i].population # None}

\* population / 0.01 of a succeeded point, in 0.1 person per km^2
pointDensity(call, i) ==
    IF IsFinite(call.tasks[i].population[1])
    THEN call.tasks[i].population[1] * 1000 ELSE Infinity

\* a call returned an estimate for which the sampler ran
Sampled(c) == calls[c].pc = "returned" /\ calls[c].tasks # <<>>

\* C14: when the sampler has run, its result is null exactly when no sample
\* point's fetch succeeded; otherwise sampleCount is the number of succeeded
\* points, max and min are the greatest and the least of exactly those
\* points' densities (population / 0.01), and mean is their average
C14_PartialFailureTolerance ==
    \A c \in Callers :
        Sampled(c) =>
            LET call == calls[c]
                S == Succeeded(call)
                stats == call.sampleStats
                sum == SeqSum([i \in 1..Len(call.tasks) |->
                                  IF i \in S THEN pointDensity(call, i) ELSE 0])
            IN  IF S = {} THEN stats = None
                ELSE /\ stats # None
                     /\ stats[1].sampleCount = Cardinality(S)
                     /\ \E i \in S : stats[1].maxDensity = pointDensity(call, i)
                     /\ \A i \in S : pointDensity(call, i) <= stats[1].maxDensity
                     /\ \E i \in S : stats[1].minDensity = pointDensity(call, i)
                     /\ \A i \in S : pointDensity(call, i) >= stats[1].minDensity
                     /\ stats[1].meanDensity * Cardinality(S) <= sum
                     /\ sum < (stats[1].meanDensity + 1) * Cardinality(S)


\* the tasks of a call that have not settled
PendingTasks(call) == {i \in 1..Len(call.tasks) : call.tasks[i].pending}

\* one step of a call, seen from the sampler's join
JoinStep(old, new) ==
    /\ (old.pc # "sampling" /\ new.pc = "sampling") =>
           \* every sample point gets its task, and every task that missed
           \* the cache has sent its submit request
           /\ Len(new.tasks) = Len(new.points)
           /\ Len(new.points) =
                  Len(generateSamplePoints(new.lat, new.lon, new.blastRadiusM.m))
           /\ new.requests.submit - old.requests.submit
                  = Cardinality(PendingTasks(new))
    /\ old.pc = "sampling" =>
           \* no task is dropped, a settled task keeps its outcome, the call
           \* waits while a task is pending and aggregates when none is
           /\ Len(new.tasks) = Len(old.tasks)
           /\ \A i \in 1..Len(old.tasks) :
                  ~old.tasks[i].pending => new.tasks[i] = old.tasks[i]
           /\ PendingTasks(new) # {} => new.pc = "sampling" /\ new.result = None
           /\ PendingTasks(new) = {} =>
                  /\ new.pc = "returned"
                  /\ new.sampleStats =
                         sampleStats([i \in 1..Len(new.tasks) |-> new.tasks[i].value])

\* C15: the sampler starts one fetch per sample point and aggregates only
\* when every task has settled, with a value or with a failure; while a task
\* is pending the estimate is not returned, and a task that settles (failed
\* or not) leaves every other task as it was, in any completion order
C15_FailSoftJoin ==
    [][\A c \in Callers : JoinStep(calls[c], calls'[c])]_vars

\* an estimate was returned after the second point's fetch failed and the
\* seventh point's succeeded with 80 persons
C15_JoinedAfterFailure ==
    /\ Sampled("a")
    /\ PendingTasks(calls["a"]) = {}
    /\ calls["a"].tasks[2].population = None
    /\ calls["a"].tasks[7].population = Some(80)


(***************************************************************************)
(* Cell cache                                                              *)
(***************************************************************************)
\* the cell key of sample point i of a call
pointKey(call, i) == cellKey(call.points[i].lat, call.points[i].lon)

\* in this step the resolver of the call reaches getWorldPopCellPopulation
CellLookupBegins(old, new) ==
    /\ old.pc \in {"geocode", "facts"}
    /\ new.pc \notin {"geocode", "facts", "rejected"}

\* in this step the sampler of the call creates its tasks
SamplerBegins(old, new) == old.tasks = <<>> /\ new.tasks # <<>>

\* one step of a call, seen from the cell cache before (cell) and after it
CellCacheStep(old, new, cell, cellAfter) ==
    LET k == cellKey(old.lat, old.lon)
        misses == IF SamplerBegins(old, new)
                  THEN Cardinality(PendingTasks(new)) ELSE 0
    IN  /\ CellLookupBegins(old, new) =>
              IF k \in DOMAIN cell
              THEN /\ new.cell = "cached"
                   /\ densityOf(new).localCellPopulation = Some(cell[k])
                   /\ new.requests.submit = old.requests.submit + misses
                   /\ new.requests.poll = old.requests.poll
              ELSE /\ new.pc = "cell"
                   /\ new.requests.submit = old.requests.submit + 1
        /\ (old.pc = "cell" /\ new.cell = "ok") =>
              /\ k \in DOMAIN cellAfter
              /\ densityOf(new).localCellPopulation = Some(cellAfter[k])
        /\ SamplerBegins(old, new) =>
              \A i \in 1..Len(new.tasks) :
                  IF pointKey(new, i) \in DOMAIN cellAfter
                  THEN /\ ~new.tasks[i].pending
                       /\ new.tasks[i].population = Some(cellAfter[pointKey(new, i)])
                  ELSE new.tasks[i].pending
        /\ (SamplerBegins(old, new) /\ old.pc # "facts" /\ old.pc # "geocode") =>
              new.requests.submit = old.requests.submit + misses
        /\ old.pc = "sampling" =>
              /\ \A i \in 1..Len(old.tasks) :
                     ~old.tasks[i].pending => new.tasks[i] = old.tasks[i]
              /\ new.requests.submit = old.requests.submit
              /\ new.requests.poll - old.requests.poll
                     <= WORLDPOP_MAX_POLLS * Cardinality(PendingTasks(old))
              /\ \A i \in PendingTasks(old) :
                     new.tasks[i].population # None =>
                         /\ pointKey(old, i) \in DOMAIN cellAfter

\* C16: a population that getWorldPopCellPopulation has fetched is in the
\* cell cache under the 4-decimal key and the key stays there; a request of
\* the resolver or of a sample point whose key is in the cache returns the
\* cached population and sends no submit and no poll request (the requests
\* of a step are exactly those of the keys that missed), whichever call,
\* grid or coordinate put the key there
C16_CellCacheHit ==
    [][/\ DOMAIN cellPopulationCache \subseteq DOMAIN cellPopulationCache'
       /\ \A c \in Callers :
              CellCacheStep(calls[c], calls'[c],
                            cellPopulationCache, cellPopulationCache')]_vars

\* caller b resolved 10.00051 without any request for the centre cell, whose
\* key 10.0005 caller a had cached from 10.00049, and b's sampler found the
\* centre and other points of its grid in the cache
C16_ServedAcrossCallsAndGrids ==
    /\ calls["a"].lat = 1000049 /\ calls["b"].lat = 1000051
    /\ calls["b"].pc = "returned" /\ ~calls["b"].hit
    /\ calls["b"].cell = "cached"
    /\ calls["b"].tasks # <<>>
    /\ calls["b"].requests.submit < Len(calls["b"].tasks) - 1
    /\ calls["b"].requests.submit > 0


(***************************************************************************)
(* Blend                                                                   *)
(***************************************************************************)
\* the local density line 394 uses: the sampled mean when there is one
blendLocal == IF probe.stats # None THEN probe.stats[1].meanDensity ELSE probe.local

\* clamp(x, 0, ceiling) with the ceiling of the fixed densities and statistics
clamped(x) ==
    Min2(Max2(x, 0), densityCeilingOf(blendLocal, probe.national, probe.stats))

\* C17: with the local density, the national density and the sample
\* statistics fixed, the effective density at a greater radius is not above
\* the one at a smaller radius when local >= national and not below it when
\* local <= national; it always lies between the clamped local and the
\* clamped national density, and it is the clamped national density at a
\* radius of 1000 km (for a finite local density)
C17_BlendMonotone ==
    (probe.fn = "effectiveDensity" /\ probe.effective # None) =>
        /\ probe.effective[1] >= Min2(clamped(blendLocal), clamped(probe.national))
        /\ probe.effective[1] <= Max2(clamped(blendLocal), clamped(probe.national))
        /\ (probe.radius = 1000000 /\ IsFinite(blendLocal)) =>
               probe.effective[1] = clamped(probe.national)
        /\ probe.previous # None =>
               /\ blendLocal >= probe.national => probe.effective[1] <= probe.previous[1]
               /\ blendLocal <= probe.national => probe.effective[1] >= probe.previous[1]

\* for a sampled mean of 4000 per km^2 and a national density of 100 per
\* km^2 the effective density fell from one radius to the next and stayed
\* above the national density
C17_FellWithRadius ==
    /\ probe.fn = "effectiveDensity"
    /\ probe.previous # None
    /\ probe.stats # None /\ blendLocal = 40000 /\ probe.national = 1000
    /\ probe.effective[1] < probe.previous[1]
    /\ probe.effective[1] > probe.national


(***************************************************************************)
(* Geodesy                                                                 *)
(***************************************************************************)
\* C18: the longitude of every point destinationPoint returns is greater
\* than -180 and at most 180 degrees
C18_LongitudeHalfOpen ==
    (probe.fn = "destinationPoint" /\ probe.point # None) =>
        /\ probe.point[1].lon > -18000000
        /\ probe.point[1].lon <= 18000000


(***************************************************************************)
(* Resolver                                                                *)
(***************************************************************************)
\* C19: when the cell lookup of a resolution succeeded, the result names the
\* gridded dataset as its source, densityPerSqKm and localCellDensityPerSqKm
\* are the fetched population / 0.01, localCellPopulation is the fetched
\* population, and the country code, name and mean density are those of the
\* country facts exactly when facts were obtained; without facts there is no
\* mean density and code and name are the upper-cased country code, or "NA"
\* and "Unknown region" when no code was resolved
C19_GriddedResult ==
    \A c \in Callers :
        (Resolved(calls[c]) /\ ~calls[c].hit /\ CellSucceeded(calls[c])) =>
            LET call == calls[c]
                d == densityOf(call)
                fetched == cellPopulationCache[cellKey(call.lat, call.lon)]
                density == IF IsFinite(fetched) THEN fetched * 1000 ELSE Infinity
            IN  /\ d.source = "WorldPop 100m (2020)"
                /\ d.densityPerSqKm = density
                /\ d.localCellDensityPerSqKm = Some(density)
                /\ d.localCellPopulation = Some(fetched)
                /\ IF FactsSucceeded(call)
                   THEN /\ d.countryCode = call.countryFacts[1].countryCode
                        /\ d.countryName = call.countryFacts[1].countryName
                        /\ d.countryMeanDensityPerSqKm
                               = Some(call.countryFacts[1].densityPerSqKm)
                   ELSE /\ d.countryMeanDensityPerSqKm = None
                        /\ call.iso2 = None =>
                               d.countryCode = "NA" /\ d.countryName = "Unknown region"
                        /\ call.iso2 = Some("ke") =>
                               d.countryCode = "KE" /\ d.countryName = "KE"
                        /\ call.iso2 = Some("mc") =>
                               d.countryCode = "MC" /\ d.countryName = "MC"

\* a gridded result for a cell of 80 persons in Kenya: 8000 per km^2 locally,
\* 100 per km^2 as the country mean
C19_GriddedKenya ==
    /\ Resolved(calls["a"]) /\ calls["a"].cell = "ok"
    /\ calls["a"].facts = "ok"
    /\ densityOf(calls["a"]).countryName = "Kenya"
    /\ densityOf(calls["a"]).countryCode = "KE"
    /\ densityOf(calls["a"]).densityPerSqKm = 80000
    /\ densityOf(calls["a"]).localCellPopulation = Some(80)
    /\ densityOf(calls["a"]).countryMeanDensityPerSqKm = Some(1000)

\* the steps of the call's resolution that are over or under way
Proceeded(call) == call.pc \in {"cell", "sampling", "returned"}

\* C20: a failed reverse geocode does not end the call and no country-facts
\* request follows it; a country-facts request is sent exactly when a
\* country code was resolved, and its failure does not end the call; the
\* cell lookup of an uncached resolution starts only when the geocode step
\* and, after a resolved code, the country-facts step have an outcome, and
\* every uncached resolution that went on has started it, whatever those
\* outcomes were
C20_FallbackOrder ==
    \A c \in Callers :
        LET call == calls[c]
        IN  /\ call.geo = "failed" => call.requests.facts = 0 /\ Proceeded(call)
            /\ call.requests.facts = (IF call.geo = "ok" THEN 1 ELSE 0)
            /\ call.geo = "ok" <=> call.iso2 # None
            /\ call.facts = "failed" => Proceeded(call)
            /\ call.facts # "none" => call.geo = "ok"
            /\ call.pc = "geocode" =>
                   /\ call.geo = "none" /\ call.requests.geocode = 1
                   /\ call.requests.submit = 0
            /\ call.pc = "facts" =>
                   /\ call.geo = "ok" /\ call.facts = "none"
                   /\ call.requests.submit = 0
            /\ call.requests.submit > 0 =>
                   /\ call.geo # "none"
                   /\ call.geo = "ok" => call.facts # "none"
            /\ (Proceeded(call) /\ ~call.hit) =>
                   /\ call.requests.submit >= 1
                   /\ call.pc = "cell" <=> call.cell = "none"
            /\ call.pc = "rejected" => call.error = InvalidInput

\* the geocoder failed, no country-facts request was sent, the cell lookup
\* was made and failed, and the call returned
C20_ReturnedAfterGeocodeFailure ==
    /\ calls["a"].pc = "returned" /\ ~calls["a"].hit
    /\ calls["a"].geo = "failed"
    /\ calls["a"].requests = [geocode |-> 1, facts |-> 0, submit |-> 1, poll |-> 0]
    /\ calls["a"].cell = "failed"


(***************************************************************************)
(* Gridded-population client: submit and result                            *)
(***************************************************************************)
\* C21: a submit response that is not OK, or that is OK and names no task,
\* ends fetchWorldPopCellPopulation with the error of that case, and no poll
\* request is sent, before or after
C21_NoPollWithoutTask ==
    (remoteTask.submit # None /\ ~SubmitAccepted(remoteTask)) =>
        /\ remoteTask.pc = "settled"
        /\ remoteTask.polls = 0
        /\ remoteTask.responses = <<>>
        /\ remoteTask.out =
               Some(Throw(IF ~remoteTask.submit[1].submitOk
                          THEN "WorldPop sample request failed"
                          ELSE "WorldPop response missing task id"))

\* the submit response was OK and carried no task id
C21_MissingTaskId ==
    /\ remoteTask.submit = Some(SubmitAnswer(TRUE, None))
    /\ remoteTask.pc = "settled"
    /\ remoteTask.polls = 0
    /\ remoteTask.out = Some(Throw("WorldPop response missing task id"))


\* C22: when the last poll response reports "finished" without the error
\* flag, fetchWorldPopCellPopulation returns total_population if it is a
\* finite number and fails with the invalid-population error otherwise
\* (missing, not a number, NaN or infinite)
C22_OnlyFinitePopulation ==
    (/\ remoteTask.pc = "settled"
     /\ remoteTask.responses # <<>>
     /\ LastResponse(remoteTask).ok
     /\ LastResponse(remoteTask).status = "finished"
     /\ ~LastResponse(remoteTask).error) =>
        LET population == LastResponse(remoteTask).total_population
        IN  IF population # None /\ IsFinite(population[1])
            THEN remoteTask.out = Some(Return(population[1]))
            ELSE remoteTask.out =
                     Some(Throw("WorldPop task returned invalid population data"))


(***************************************************************************)
(* Country-facts client                                                    *)
(***************************************************************************)
\* C23: every country-facts value that loadCountryFacts hands to the
\* resolver has a population > 0, an area > 0 and a mean density > 0
C23_FactsPositive ==
    \A c \in Callers :
        calls[c].countryFacts # None =>
            /\ calls[c].countryFacts[1].population > 0
            /\ calls[c].countryFacts[1].areaKm2 > 0
            /\ calls[c].countryFacts[1].densityPerSqKm > 0


(***************************************************************************)
(* Sample grid                                                             *)
(***************************************************************************)
\* clamp(radius, MIN_SAMPLE_RADIUS_KM, WORLDPOP_SAMPLING_RADIUS_CAP_KM), metres
clampedRadius(radiusM) == Min2(Max2(radiusM, 2000), 60000)

\* the distance of a ring, read from its first point: bearing 0 is due
\* north, so that point keeps the centre's longitude and its latitude is
\* the centre's plus the ring distance as an arc (1e-5 degree)
RingAt(first, distanceM) ==
    /\ probe.points[first].lon = normaliseLongitude(probe.lon)
    /\ probe.points[first].lat - probe.lat = (distanceM * 8993) \div 10000
    /\ \A i \in 0..5 :
           probe.points[first + i]
               = destinationPoint(probe.lat, probe.lon, distanceM, i)

\* C24: the list starts with the centre, one ring of 6 points follows, and a
\* second ring of 6 points at the full effective radius follows exactly
\* when the nominal radius is > 10 km: 7 points up to 10 km, 13 above
C24_SevenOrThirteenPoints ==
    (probe.fn = "generateSamplePoints" /\ probe.points # <<>>) =>
        /\ probe.points[1] = [lat |-> probe.lat, lon |-> probe.lon]
        /\ Len(probe.points) <= 1 + 2 * 6
        /\ IF probe.radiusM > 10000
           THEN /\ Len(probe.points) = 13
                /\ RingAt(8, clampedRadius(probe.radiusM))
           ELSE Len(probe.points) = 7

\* the grid of a nominal radius of 12 km: 13 points
C24_ThirteenPoints ==
    /\ probe.fn = "generateSamplePoints"
    /\ probe.radiusM = 12000
    /\ Len(probe.points) = 13

\* C25: the first ring lies at exactly 0.6 x the effective radius, the
\* effective radius being clamp(radius, 2 km, 60 km)
C25_FirstRingAtSixTenths ==
    (probe.fn = "generateSamplePoints" /\ probe.points # <<>>) =>
        RingAt(2, (clampedRadius(probe.radiusM) * 6) \div 10)


(***************************************************************************)
(* Casualty estimator                                                      *)
(***************************************************************************)
\* an estimateCasualties call that fetchPopulationDensity has answered
Estimating(call) == call.op = "estimateCasualties" /\ Resolved(call)

\* the sample fields of a CasualtyEstimate are absent
NoSampleFields(e) ==
    /\ e.sampledMeanDensityPerSqKm = None
    /\ e.sampledMaxDensityPerSqKm = None
    /\ e.samplePointCount = None

\* C26: estimateCasualties runs the sampler exactly when blastRadiusM > 1000.
\* Up to 1 km no request for a sample point is sent (the only cell request
\* is the resolver's) and the estimate has no sample fields.  Above 1 km a
\* sampler without data does not stop the call: the estimate returned has
\* no sample fields and its effective density is the one computed from the
\* single-cell density, or from the overall density when there is none
C26_SamplerAboveOneKm ==
    \A c \in Callers :
        Estimating(calls[c]) =>
            LET call == calls[c]
                d == densityOf(call)
            IN  /\ call.tasks # <<>> <=> call.blastRadiusM.m > 1000
                /\ call.blastRadiusM.m <= 1000 =>
                       /\ call.pc = "returned"
                       /\ call.requests.submit <= 1
                       /\ NoSampleFields(call.result[1])
                /\ (call.pc = "returned" /\ call.sampleStats = None) =>
                       LET local == IF d.localCellDensityPerSqKm # None
                                    THEN d.localCellDensityPerSqKm[1]
                                    ELSE d.densityPerSqKm
                           national == IF d.countryMeanDensityPerSqKm # None
                                       THEN d.countryMeanDensityPerSqKm[1]
                                       ELSE d.densityPerSqKm
                       IN  /\ NoSampleFields(call.result[1])
                           /\ call.result[1].effectiveDensityPerSqKm =
                                  effectiveDensityOf(
                                      blendedDensityOf(local, national,
                                          localWeight(call.blastRadiusM.m)),
                                      densityCeilingOf(local, national, None))
                /\ (call.pc = "returned" /\ call.sampleStats # None) =>
                       call.result[1].samplePointCount
                           = Some(call.sampleStats[1].sampleCount)

\* at 1001 m the sampler ran, the cell lookup and all seven sample points
\* failed, and the estimate was returned from the country density
C26_SampledWithoutData ==
    /\ calls["a"].pc = "returned"
    /\ calls["a"].blastRadiusM = Metres(1001)
    /\ Len(calls["a"].tasks) = 7
    /\ calls["a"].sampleStats = None
    /\ calls["a"].cell = "failed" /\ calls["a"].facts = "ok"
    /\ calls["a"].result[1].effectiveDensityPerSqKm = 1000


\* the local density of a returned estimate by the priority of C27
selectedLocal(call) ==
    IF call.sampleStats # None THEN call.sampleStats[1].meanDensity
    ELSE IF densityOf(call).localCellDensityPerSqKm # None
    THEN densityOf(call).localCellDensityPerSqKm[1]
    ELSE densityOf(call).densityPerSqKm

\* the national density of a returned estimate by the priority of C27
selectedNational(call) ==
    IF densityOf(call).countryMeanDensityPerSqKm # None
    THEN densityOf(call).countryMeanDensityPerSqKm[1]
    ELSE densityOf(call).densityPerSqKm

\* C27: the effective density of every estimate is the blend, under its
\* ceiling, of these two densities: local is the sampled mean when there are
\* sample statistics, else the single-cell density when the result has one,
\* else densityPerSqKm; national is the country mean density when the
\* result has one, else densityPerSqKm; a density of 0 keeps its place
C27_DensitySelection ==
    \A c \in Callers :
        (calls[c].op = "estimateCasualties" /\ calls[c].pc = "returned") =>
            calls[c].result[1].effectiveDensityPerSqKm =
                effectiveDensityOf(
                    blendedDensityOf(selectedLocal(calls[c]), selectedNational(calls[c]),
                                     localWeight(calls[c].blastRadiusM.m)),
                    densityCeilingOf(selectedLocal(calls[c]), selectedNational(calls[c]),
                                     calls[c].sampleStats))

\* the cell lookup failed, the country density is 100 per km^2, and the
\* sampled mean 0 was taken as the local density: at 5000 m the effective
\* density is below the country density
C27_ZeroMeanSelected ==
    /\ calls["a"].pc = "returned" /\ calls["a"].blastRadiusM = Metres(5000)
    /\ calls["a"].sampleStats # None
    /\ selectedLocal(calls["a"]) = 0
    /\ densityOf(calls["a"]).localCellDensityPerSqKm = None
    /\ densityOf(calls["a"]).densityPerSqKm = 1000
    /\ calls["a"].result[1].effectiveDensityPerSqKm < 1000


\* 5 x a density
fiveTimes(x) == IF IsFinite(x) THEN 5 * x ELSE Infinity

\* the members of the ceiling's candidate set that are positive and finite
ceilingCandidates ==
    {x \in {50000, fiveTimes(probe.national), fiveTimes(blendLocal)}
            \cup (IF probe.stats # None
                  THEN {(3 * probe.stats[1].maxDensity) \div 2} ELSE {}) :
        x > 0 /\ IsFinite(x)}

\* C28: the density ceiling is max(1, least positive finite member of
\* {5000, 1.5 x sampled max (with statistics), 5 x national, 5 x local}) and
\* the effective density is the blended density clamped into [0, ceiling]
C28_CeilingAndClamp ==
    (probe.fn = "effectiveDensity" /\ probe.effective # None) =>
        LET least == CHOOSE m \in ceilingCandidates :
                         \A x \in ceilingCandidates : m <= x
        IN  /\ probe.ceiling[1] = (IF least < 10 THEN 10 ELSE least)
            /\ probe.effective[1] =
                   (IF probe.blended[1] < 0 THEN 0
                    ELSE IF probe.blended[1] > probe.ceiling[1] THEN probe.ceiling[1]
                    ELSE probe.blended[1])

\* a local density of 0.1 per km^2 over a national density of 0: the least
\* candidate is 0.5, the ceiling is the floor 1 and clamps the blend
C28_FlooredCeiling ==
    /\ probe.fn = "effectiveDensity" /\ probe.effective # None
    /\ probe.stats = None /\ probe.local = 1 /\ probe.national = 0
    /\ probe.ceiling = Some(10)
    /\ probe.effective[1] <= 1


\* requests of one fetch sent and not yet answered: at most one, and exactly
\* while the submit or a poll is awaited; every poll but the awaited one has
\* its response
OneOutstanding(task) ==
    /\ task.outstanding \in {0, 1}
    /\ task.outstanding = 1 <=> task.pc \in {"submitted", "polling"}
    /\ task.polls = Len(task.responses) + (IF task.pc = "polling" THEN 1 ELSE 0)
    /\ task.pc = "submitted" => task.submit = None /\ task.polls = 0
    /\ task.polls > 0 => task.submit # None

\* one step of one fetch: submit, then per attempt a delay followed by one poll
SequentialStep(old, new) ==
    /\ new.polls # old.polls =>
           /\ old.pc = "delay" /\ new.pc = "polling"
           /\ new.polls = old.polls + 1
           /\ old.outstanding = 0 /\ Len(old.responses) = old.polls
    /\ (old.pc = "delay" /\ new # old) => new.polls = old.polls + 1
    /\ new.responses # old.responses =>
           /\ old.pc = "polling" /\ new.pc \in {"delay", "settled"}
           /\ Len(new.responses) = Len(old.responses) + 1
    /\ (old.pc = "submitted" /\ new # old) => new.pc \in {"delay", "settled"}
    /\ old.pc = "settled" => new = old

\* C29: within one fetchWorldPopCellPopulation call the steps are strictly
\* sequential - the submit, then for each attempt a delay followed by one
\* poll, the next attempt starting only after the previous poll's response -
\* so at most one request of the call is outstanding at any time; the calls
\* of one batch interleave freely: a step moves one fetch only, and every
\* unsettled fetch can take its next step whatever state the others are in.
C29_SequentialWithinFetch ==
    [][/\ \A i \in DOMAIN batch :
            /\ OneOutstanding(batch[i])
            /\ batch[i].pc # "settled" => ENABLED FetchStep(i)
       /\ \A i \in DOMAIN batch' : OneOutstanding(batch'[i])
       /\ batch # <<>> =>
            /\ \A i \in DOMAIN batch : SequentialStep(batch[i], batch'[i])
            /\ Cardinality({i \in DOMAIN batch : batch'[i] # batch[i]}) <= 1]_vars

\* C29 witness: two fetches of the batch each await a poll, the first at its
\* third attempt and the second at its first
C29_TwoFetchesInFlight ==
    /\ Len(batch) >= 2
    /\ batch[1].pc = "polling" /\ batch[1].polls = 3 /\ batch[1].outstanding = 1
    /\ batch[2].pc = "polling" /\ batch[2].polls = 1 /\ batch[2].outstanding = 1


\* the variant's call has returned an estimate
AppEstimated == probe.fn = "appEstimateCasualties" /\ probe.out # None /\ ~probe.out[1].threw

\* the country's record was loaded, so its population is known
AppCountryKnown == AppEstimated /\ probe.countryFacts # None

\* C30: the estimatedCasualties of the variant's estimateCasualties is never
\* negative and, when the country population is known, never above 0.9 x
\* that population
C30_AppCasualtyBound ==
    AppEstimated =>
        LET e == probe.out[1].value[1]
        IN  /\ SWLeq(SWZero, e.estimatedCasualties)
            /\ AppCountryKnown =>
                   SWLeq(e.estimatedCasualties,
                         SWFromIntTimes(probe.countryFacts[1].population, 900))


\* C31: when estimateCasualties rejects the radius as invalid, no remote
\* request of any kind has been issued by the call and the step that rejects
\* it leaves the location cache and the cell cache as they were.
C31_InvalidInputFrame ==
    [][\A c \in Callers :
          (calls'[c].pc = "rejected" /\ calls'[c].error = InvalidInput) =>
              /\ calls'[c].requests = NoRequests
              /\ calls'[c].result = None /\ calls'[c].density = None
              /\ calls'[c] # calls[c] =>
                     /\ locationCache' = locationCache
                     /\ cellPopulationCache' = cellPopulationCache
                     /\ completed' = completed]_vars

\* C31 witness: a call was rejected for its radius although both caches
\* held entries, the location cache one for its own key
C31_RejectedOnWarmCaches ==
    \E c \in Callers :
        /\ calls[c].pc = "rejected" /\ calls[c].error = InvalidInput
        /\ calls[c].seen # {}
        /\ keyOf(calls[c]) \in DOMAIN locationCache
        /\ cellPopulationCache # EmptyMap


\* the keys whose cell-cache entry a step adds or changes
CellKeysWritten ==
    {k \in DOMAIN cellPopulationCache' :
        k \notin DOMAIN cellPopulationCache
        \/ cellPopulationCache'[k] # cellPopulationCache[k]}

\* the step ends the cell fetch of old's resolver or of a sample point of
\* old with the finished-success population that is now cached under k
FetchedFor(old, new, k) ==
    \/ /\ old.pc = "cell" /\ new.cell = "ok"
       /\ k = cellKey(old.lat, old.lon)
       /\ densityOf(new).localCellPopulation = Some(cellPopulationCache'[k])
    \/ /\ old.pc = "sampling"
       /\ \E i \in 1..Len(old.tasks) :
              /\ old.tasks[i].pending /\ ~new.tasks[i].pending
              /\ k = cellKey(old.points[i].lat, old.points[i].lon)
              /\ new.tasks[i].population = Some(cellPopulationCache'[k])

\* C32: the cell cache only receives values a fetch returned as
\* finished-success for that key; a failed cell fetch of the resolver leaves
\* the cell cache unchanged, so that the next request for the key (the
\* sampler's centre point) sends a fresh submit, while the location cache
\* receives the fallback that the failure produced.
C32_FailuresNotCellCached ==
    [][\A c \in Callers :
          LET old == calls[c]
              new == calls'[c]
          IN  /\ new # old =>
                     \A k \in CellKeysWritten : FetchedFor(old, new, k)
              /\ (old.pc = "cell" /\ new.cell = "failed") =>
                     /\ cellPopulationCache' = cellPopulationCache
                     /\ keyOf(new) \in DOMAIN locationCache'
                     /\ locationCache'[keyOf(new)] = densityOf(new)
                     /\ densityOf(new).localCellPopulation = None
                     /\ densityOf(new).source # "WorldPop 100m (2020)"
                     /\ (new.pc = "sampling"
                         /\ cellKey(new.lat, new.lon) \notin DOMAIN cellPopulationCache) =>
                            /\ new.tasks[1].pending
                            /\ cellKey(new.points[1].lat, new.points[1].lon)
                                   = cellKey(new.lat, new.lon)
                            /\ new.requests.submit > old.requests.submit]_vars

\* C32 witness: the resolver's cell fetch timed out after eight polls, the
\* location cache holds the country fallback, the cell cache is empty and
\* the sampler has sent a fresh submit for the centre
C32_ResubmittedAfterTimeout ==
    \E c \in Callers :
        /\ calls[c].pc = "sampling" /\ calls[c].cell = "failed"
        /\ calls[c].requests.poll = WORLDPOP_MAX_POLLS
        /\ calls[c].tasks[1].pending
        /\ calls[c].requests.submit = 1 + Len(calls[c].tasks)
        /\ cellPopulationCache = EmptyMap
        /\ keyOf(calls[c]) \in DOMAIN locationCache
        /\ locationCache[keyOf(calls[c])].source = "BigDataCloud reverse geocode + RestCountries"


\* C33: a poll response with a non-2xx status ends
\* fetchWorldPopCellPopulation at once with the polling failure, at
\* whatever attempt it arrives: it is the last response, no poll request
\* follows it, and the attempts left are not used.
C33_FailedPollEndsFetch ==
    \A k \in 1..Len(remoteTask.responses) :
        ~remoteTask.responses[k].ok =>
            /\ remoteTask.pc = "settled"
            /\ k = Len(remoteTask.responses)
            /\ remoteTask.polls = k
            /\ remoteTask.out = Some(Throw("WorldPop task polling failed"))

\* C33 witness: the fifth poll failed after four polls answered "started";
\* the fetch ended with three attempts unused
C33_FifthPollFailed ==
    /\ remoteTask.pc = "settled"
    /\ Len(remoteTask.responses) = 5
    /\ \A k \in 1..4 : remoteTask.responses[k] = Pending
    /\ ~remoteTask.responses[5].ok
    /\ remoteTask.polls = 5 /\ remoteTask.polls < WORLDPOP_MAX_POLLS
    /\ remoteTask.out[1].threw


\* the requests of a call stay within 1 geocode request, 1 country-facts
\* request, 1 submit per cell fetch (the resolver's and one per sample
\* point) and 8 polls per submit
WithinRequestBudget(call) ==
    /\ call.requests.geocode <= 1
    /\ call.requests.facts <= 1
    /\ call.requests.submit <= 1 + Len(call.tasks)
    /\ call.requests.poll <= WORLDPOP_MAX_POLLS * call.requests.submit

\* the call has returned a result or failed with InvalidInput
EstimateEnded(call) ==
    \/ call.pc = "returned" /\ call.result # None
    \/ call.pc = "rejected" /\ call.error = InvalidInput

\* C34: provided every request and every delay timer completes in the end,
\* every estimateCasualties call in the end returns a result or fails with
\* InvalidInput, having sent at most 1 geocode request, 1 country-facts
\* request and, per cell fetch, 1 submit and at most 8 polls.
C34_EstimateTerminates ==
    /\ [](\A c \in Callers : WithinRequestBudget(calls[c]))
    /\ \A c \in Callers :
           (calls[c].op = "estimateCasualties") ~>
               (calls[c].op = "estimateCasualties" /\ EstimateEnded(calls[c]))

\* C34 witness: a call returned after 1 geocode request, 1 country-facts
\* request, 14 submits and 56 polls (the resolver's fetch and six of the
\* thirteen sample fetches timed out)
C34_ReturnedAfterFullBudget ==
    \E c \in Callers :
        /\ calls[c].op = "estimateCasualties" /\ calls[c].pc = "returned"
        /\ calls[c].requests = [geocode |-> 1, facts |-> 1, submit |-> 14, poll |-> 56]


\* C35: one estimateCasualties call sends at most 14 submit requests (1 by
\* the resolver, at most 13 by the sampler); when the resolver's cell lookup
\* succeeded in the call, the sampler's centre point comes from the cell
\* cache and the total is at most 13; when the location cache held the
\* coordinate's key, the resolver sent no request at all.
C35_SubmitBudget ==
    \A c \in Callers :
        calls[c].op = "estimateCasualties" =>
            LET call == calls[c]
            IN  /\ Len(call.tasks) <= 13
                /\ call.requests.submit <= 14
                /\ call.requests.submit <= 1 + Len(call.tasks)
                /\ call.cell = "ok" =>
                       /\ call.requests.submit <= 13
                       /\ call.requests.submit <= Max2(1, Len(call.tasks))
                /\ call.cell = "cached" =>
                       call.requests.submit <= Max2(0, Len(call.tasks) - 1)
                /\ call.hit =>
                       /\ call.requests.geocode = 0 /\ call.requests.facts = 0
                       /\ call.cell = "none"
                       /\ call.requests.submit <= Len(call.tasks)

\* C35 witness: one call sent 14 submits (its resolver's fetch failed), and
\* the other found the first one's fallback in the location cache and sent
\* the sampler's 13 submits only
C35_FourteenAndThirteen ==
    \E c, d \in Callers :
        /\ calls[c].op = "estimateCasualties" /\ calls[c].cell = "failed"
        /\ calls[c].requests.submit = 14
        /\ calls[d].op = "estimateCasualties" /\ calls[d].hit
        /\ calls[d].requests = [geocode |-> 0, facts |-> 0, submit |-> 13, poll |-> 0]


\* C36: with finite cell and country values the density ceiling lies in
\* [1, GLOBAL_DENSITY_CEILING_PER_KM2] and the effective density in
\* [0, GLOBAL_DENSITY_CEILING_PER_KM2]; when the national density is
\* positive the effective density is also at most max(1, 5 x national
\* density), however small the blast and however dense the local cell.
C36_DensityRange ==
    (probe.fn = "effectiveDensity" /\ probe.effective # None /\ IsFinite(probe.local)) =>
        /\ probe.ceiling[1] >= 1 * 10
        /\ probe.ceiling[1] <= GLOBAL_DENSITY_CEILING_PER_KM2 * 10
        /\ probe.effective[1] >= 0
        /\ probe.effective[1] <= GLOBAL_DENSITY_CEILING_PER_KM2 * 10
        /\ probe.national > 0 =>
               probe.effective[1] <= Max2(1 * 10, 5 * probe.national)

\* C36 witness: a blast of 1 m over a cell of 10000 per km^2 in a country of
\* 100 per km^2: the blend is nearly the cell density and the effective
\* density is 5 x 100
C36_SmallBlastDenseCell ==
    /\ probe.fn = "effectiveDensity" /\ probe.effective # None
    /\ probe.radius = 1 /\ probe.stats = None
    /\ probe.local = 100000 /\ probe.national = 1000
    /\ probe.blended[1] > 99000
    /\ probe.effective = Some(5000)


\* the summary kept for a click, None when there is none
SummaryOf(g, id) ==
    IF id \in DOMAIN g.impactSummaries THEN Some(g.impactSummaries[id]) ELSE None

Settled(summary) == summary # None /\ summary[1].status \in {"ready", "error"}

\* the step is a click: it took a new id
Clicked == globe'.idRef # globe.idRef

\* the step settled the estimateCasualties promise of click id
Completed(id) == id \in DOMAIN globe.estimates /\ id \notin DOMAIN globe'.estimates

\* the step cleared the globe
Cleared(g) ==
    /\ g.impactSummaries = EmptyMap /\ g.latestImpactMeta = None
    /\ g.meteors = <<>> /\ g.explosions = <<>> /\ g.tsunamis = <<>>

\* the overlay is about the latest click, and a result it shows is that click's
OverlayShowsLatest ==
    globe.latestImpactMeta # None =>
        /\ globe.latestImpactMeta[1].id = globe.idRef
        /\ latestImpactSummary(globe) # None
        /\ latestImpactSummary(globe)[1].status = "ready" =>
               latestImpactSummary(globe)[1].data[1].click = globe.idRef

\* a click takes the next id, larger than every id in use, and becomes the latest
FreshId ==
    /\ globe'.idRef >= globe.idRef
    /\ Clicked =>
           /\ globe'.idRef = globe.idRef + 1
           /\ \A id \in DOMAIN globe.impactSummaries \cup DOMAIN globe.estimates :
                  id < globe'.idRef
           /\ globe'.latestImpactMeta # None
           /\ globe'.latestImpactMeta[1].id = globe'.idRef

\* C37 as stated: each globe click gets a fresh strictly increasing id; its
\* summary is set to loading, moves to ready or error exactly once and never
\* changes afterwards; the completion of one click's estimateCasualties never
\* alters another click's summary, and the overlay shows the summary of the
\* latest click's id, never an older click's result.
C37_LoadingThenSettledOnce ==
    /\ []OverlayShowsLatest
    /\ [][/\ FreshId
          /\ Clicked => SummaryOf(globe', globe'.idRef) = Some(Loading)
          /\ \A id \in 1..globe'.idRef :
                 LET old == SummaryOf(globe, id)
                     new == SummaryOf(globe', id)
                 IN  /\ (old = None /\ new # None) => (Clicked /\ id = globe'.idRef)
                     /\ (old = Some(Loading) /\ new # old) =>
                            (Settled(new) /\ Completed(id))
                     /\ Settled(old) => new = old]_vars

\* C37: each globe click gets a fresh strictly increasing id and becomes the
\* latest click; its summary is set to loading when the effective blast radius
\* is positive and directly to the error "Impact radius unavailable" otherwise;
\* a summary changes afterwards only when the click's own estimateCasualties
\* settles, which happens at most once and writes ready with that click's
\* estimate or error, or when resetGlobe clears all summaries (a click that
\* settles after the reset gets its summary back); the completion of one
\* click's estimateCasualties never alters another click's summary, and the
\* overlay shows the summary of the latest click's id, never an older click's
\* result, whatever order the requests complete in.
C37_SummaryLifecycle ==
    /\ []OverlayShowsLatest
    /\ [][/\ FreshId
          /\ Clicked =>
                 SummaryOf(globe', globe'.idRef) =
                     Some(IF radiusAvailable(globe'.latestImpactMeta[1].blastRadiusM)
                          THEN Loading
                          ELSE Failed("Impact radius unavailable"))
          /\ \A id \in 1..globe'.idRef :
                 LET old == SummaryOf(globe, id)
                     new == SummaryOf(globe', id)
                 IN  new # old =>
                         \/ Clicked /\ id = globe'.idRef /\ old = None
                         \/ /\ Completed(id)
                            /\ old \in {None, Some(Loading)}
                            /\ Settled(new)
                            /\ new[1].status = "ready" => new[1].data[1].click = id
                            /\ \A other \in 1..globe'.idRef :
                                   other # id =>
                                       SummaryOf(globe', other) = SummaryOf(globe, other)
                         \/ new = None /\ Cleared(globe')]_vars

\* the second click's estimate is ready and shown while the first click's is
\* still loading
C37_SecondFinishedFirst ==
    /\ globe.idRef = 2
    /\ DOMAIN globe.estimates = {1}
    /\ SummaryOf(globe, 1) = Some(Loading)
    /\ latestImpactSummary(globe) # None
    /\ latestImpactSummary(globe)[1].status = "ready"
    /\ latestImpactSummary(globe)[1].data[1].click = 2

\* nothing is shown on the globe: no summary, meteor, explosion or tsunami
Emptied(g) ==
    /\ g.impactSummaries = EmptyMap
    /\ g.meteors = <<>> /\ g.explosions = <<>> /\ g.tsunamis = <<>>

\* C38: after resetGlobe the impact summaries, meteors, explosions and tsunamis
\* stay empty until the next click: no estimateCasualties completion and no
\* timer started by an earlier click adds an entry.
C38_EmptyUntilNextClick ==
    [][(Emptied(globe) /\ ~Clicked) => Emptied(globe')]_vars

\* the globe was reset while a click's promise or timers were still pending
C38_ResetWithWorkPending ==
    /\ Emptied(globe)
    /\ globe.idRef > 0
    /\ DOMAIN globe.estimates # {} \/ globe.meteorTimers # <<>>
           \/ globe.tsunamiTimers # <<>>

\* new is old overridden with the patch's fields
Overrides(new, old, patch) ==
    /\ DOMAIN new = DOMAIN old \cup DOMAIN patch
    /\ \A k \in DOMAIN patch : new[k] = patch[k]
    /\ \A k \in DOMAIN old \ DOMAIN patch : new[k] = old[k]

\* the calls the listener received in the step
CallsIn(fn) ==
    SubSeq(impactBus'.received[fn], Len(impactBus.received[fn]) + 1,
           Len(impactBus'.received[fn]))

\* no call is taken back
CallsKept(fn) ==
    /\ Len(impactBus'.received[fn]) >= Len(impactBus.received[fn])
    /\ SubSeq(impactBus'.received[fn], 1, Len(impactBus.received[fn])) =
           impactBus.received[fn]

\* C39: subscribeImpact calls the listener once, immediately, with the current
\* state; every setImpact(patch) replaces the state by the old state overridden
\* with the patch's fields and calls every currently subscribed listener
\* exactly once with that new state; a listener whose unsubscribe function has
\* been called is not called again (until it is subscribed again); getImpact
\* returns the current state, which only setImpact changes.
C39_BusContract ==
    [][/\ \A fn \in Listeners : CallsKept(fn)
       /\ IF impactBus'.sets # impactBus.sets
          THEN /\ \E patch \in Patches :
                      Overrides(impactBus'.state, impactBus.state, patch)
               /\ impactBus'.listeners = impactBus.listeners
               /\ \A fn \in Listeners :
                      CallsIn(fn) = IF fn \in impactBus.listeners
                                    THEN <<impactBus'.state>> ELSE <<>>
          ELSE /\ impactBus'.state = impactBus.state
               /\ IF impactBus'.subscribes # impactBus.subscribes
                  THEN \E fn \in Listeners :
                           /\ impactBus'.listeners = impactBus.listeners \cup {fn}
                           /\ CallsIn(fn) = <<impactBus.state>>
                           /\ \A other \in Listeners \ {fn} : CallsIn(other) = <<>>
                  ELSE /\ \A fn \in Listeners : CallsIn(fn) = <<>>
                       /\ impactBus'.listeners \subseteq impactBus.listeners
       /\ impactBus'.got # impactBus.got =>
              impactBus'.got = Some(impactBus.state)]_vars

\* two patches went through; "g" got the initial state and both new states,
\* "f" unsubscribed after the first and missed the second; the second patch
\* left the fields it does not name as the first had set them
C39_TwoPatchesOneLeft ==
    /\ impactBus.sets = 2
    /\ impactBus.listeners = {"g"} /\ impactBus.handles = {"f", "g"}
    /\ Len(impactBus.received["g"]) = 3
    /\ impactBus.received["g"][1] = initialImpact
    /\ impactBus.received["g"][3] = impactBus.state
    /\ Len(impactBus.received["f"]) = 2
    /\ impactBus.received["f"][2] = impactBus.received["g"][2]
    /\ impactBus.state.diameterM = 250 /\ impactBus.state.velocityMS = 17000
    /\ impactBus.state.energyMt = Some(48)
    /\ impactBus.got = Some(impactBus.state)
====
